---- MODULE Spec2Model ----
(***************************************************************************)
(* DocGPT backend: the vector index (Qdrant collection) with its           *)
(* hash-derived point ids, document upload and deletion, the streaming     *)
(* chat turn of send_message, and the RAG generator of rag_service.py.     *)
(*                                                                         *)
(* Texts are sequences of one-character strings, so that slicing,          *)
(* stripping and concatenation are computed and never assumed.             *)
(***************************************************************************)
EXTENDS Integers, Sequences, FiniteSets, TLC

VARIABLES
    seed,           \* the running server process's string-hash seed (PYTHONHASHSEED)
    index,          \* the Qdrant collection: point id -> point
    indexed,        \* per document: the chunk list its last successful indexing stored
    ops,            \* number of state-changing calls and restarts so far
    last,           \* the last call made and what it returned
    users,          \* the users table: user ids
    documents,      \* the documents table: records with id, user_id, name, file_url
    blobs,          \* the storage bucket: paths of the stored files
    used,           \* the document ids uuid4 has handed out
    g,              \* a direct call of the RAG generator: its arguments and progress
    req,            \* the send_message requests: locals and position of each
    sessions,       \* table sessions: id -> row
    chat_messages,  \* table chat_messages: the rows, in the order of their insertion
    now,            \* the value the next datetime.utcnow() returns
    coll,           \* the Qdrant collection itself: existence, vector size, points
    ini,            \* the VectorService constructors: locals and position of each
    ck              \* a direct call of the chunker: its arguments, locals and result

vars == <<seed, index, indexed, ops, last, users, documents, blobs, used, g,
          req, sessions, chat_messages, now, coll, ini, ck>>

indexVars == <<seed, index, indexed>>
storeVars == <<users, documents, blobs, used>>
genVars == <<g>>
chatVars == <<req, sessions, chat_messages, now>>
chunkVars == <<ck>>
collVars == <<coll, ini>>

(***************************************************************************)
(* Bounds of the model                                                     *)
(***************************************************************************)
\* Number of distinct hash seeds a server process can start with.
NumSeeds == 2
\* Number of index-changing calls and restarts followed.
MaxOps == 3
\* Size of the point-id space the hash is reduced into (2**63 in the code).
IdSpace == 11
\* Number of upload requests followed.
MaxUploads == 2
\* Largest top_k a direct search call is tried with.
MaxTopK == 2
\* Longest conversation history handed to the generator directly.
MaxHist == 8
\* Number of chat requests one behaviour sends.
MaxTurns == 2
\* Longest text, largest chunk_size and largest chunk_overlap chunk_text is called with.
MaxText == 4
MaxSize == 3
MaxOverlap == 4
\* Number of delete requests followed, and most messages a session starts with.
MaxDeletes == 1
MaxMsgs == 3
\* Number of requests followed on the session and document routes.
MaxCalls == 2
\* Number of VectorService constructions followed, and most points upserted meanwhile.
MaxInits == 3
MaxPoints == 2

(***************************************************************************)
(* Texts                                                                   *)
(***************************************************************************)
SP == " "

\* Where Python puts a slice bound: a negative one counts from the end, and
\* both ends are clamped to the text.
SliceBound(s, i) ==
    IF i < 0 THEN (IF Len(s) + i < 0 THEN 0 ELSE Len(s) + i)
    ELSE IF i > Len(s) THEN Len(s) ELSE i

\* Python's s[a:b]; 0-based, end-exclusive.
Slice(s, a, b) ==
    LET f == SliceBound(s, a)
        e == SliceBound(s, b)
    IN  IF f >= e THEN <<>> ELSE SubSeq(s, f + 1, e)

RECURSIVE LStrip(_)
LStrip(s) ==
    IF s # <<>> /\ Head(s) = SP THEN LStrip(Tail(s)) ELSE s

RECURSIVE RStrip(_)
RStrip(s) ==
    IF s # <<>> /\ s[Len(s)] = SP THEN RStrip(SubSeq(s, 1, Len(s) - 1)) ELSE s

\* str.strip()
Strip(s) == RStrip(LStrip(s))

(***************************************************************************)
(* Chunker and PDF text extraction                                         *)
(***************************************************************************)
\* Config.CHUNK_SIZE and Config.CHUNK_OVERLAP
CHUNK_SIZE == 1500
CHUNK_OVERLAP == 300

\* A chunker that appends every window.
KeepsChunkAlways(chunk) == TRUE

\* if chunk.strip():
KeepsChunk(chunk) == Strip(chunk) # <<>>

\* A chunker without the guard against chunk_overlap >= chunk_size.
NextStartSkipping(end, chunk_size, chunk_overlap) ==
    IF chunk_overlap >= chunk_size THEN end + 1 ELSE end - chunk_overlap

\* start = end - chunk_overlap; if chunk_overlap >= chunk_size: start = end
NextStart(end, chunk_size, chunk_overlap) ==
    IF chunk_overlap >= chunk_size THEN end ELSE end - chunk_overlap

\* The while loop of chunk_text from position start on.
RECURSIVE ChunkFrom(_, _, _, _)
ChunkFrom(text, start, chunk_size, chunk_overlap) ==
    IF start >= Len(text) THEN <<>>
    ELSE LET end == start + chunk_size
             chunk == Slice(text, start, end)
             next == NextStart(end, chunk_size, chunk_overlap)
             rest == ChunkFrom(text, next, chunk_size, chunk_overlap)
         IN  IF KeepsChunk(chunk) THEN <<Strip(chunk)>> \o rest ELSE rest

\* PDFUtils.chunk_text
ChunkText(text, chunk_size, chunk_overlap) ==
    IF text = <<>> THEN <<>> ELSE ChunkFrom(text, 0, chunk_size, chunk_overlap)

\* A chunk_pages that numbers the chunks through the whole document.
ChunkPagesRunningIndex(pages, chunk_size, chunk_overlap) ==
    LET RECURSIVE All(_)
        All(ps) == IF ps = <<>> THEN <<>>
                   ELSE LET cs == ChunkText(Head(ps).text, chunk_size, chunk_overlap)
                        IN  [i \in 1 .. Len(cs) |->
                                [page_number |-> Head(ps).page_number, text |-> cs[i]]]
                            \o All(Tail(ps))
        all == All(pages)
    IN  [i \in 1 .. Len(all) |->
            [page_number |-> all[i].page_number, chunk_id |-> i - 1, text |-> all[i].text]]

\* PDFUtils.chunk_pages: every page is chunked on its own, chunk_id restarts at 0.
RECURSIVE ChunkPages(_, _, _)
ChunkPages(pages, chunk_size, chunk_overlap) ==
    IF pages = <<>> THEN <<>>
    ELSE LET page == Head(pages)
             chunks == ChunkText(page.text, chunk_size, chunk_overlap)
         IN  [i \in 1 .. Len(chunks) |->
                 [page_number |-> page.page_number, chunk_id |-> i - 1, text |-> chunks[i]]]
             \o ChunkPages(Tail(pages), chunk_size, chunk_overlap)

\* PDFUtils.extract_text_from_pdf: pages numbered from 1, each text stripped.
ExtractText(pdf) ==
    [i \in 1 .. Len(pdf) |-> [page_number |-> i, text |-> Strip(pdf[i])]]

\* ' '.join(page['text'] for page in pages)
RECURSIVE JoinPages(_)
JoinPages(pages) ==
    IF pages = <<>> THEN <<>>
    ELSE IF Len(pages) = 1 THEN pages[1].text
    ELSE pages[1].text \o <<SP>> \o JoinPages(Tail(pages))

\* The chunk dicts the upload route builds: page_number i // 3, chunk_id i.
RouteChunkDicts(chunks) ==
    [i \in 1 .. Len(chunks) |->
        [page_number |-> (i - 1) \div 3, chunk_id |-> i - 1, text |-> chunks[i]]]

(***************************************************************************)
(* Vector index                                                            *)
(***************************************************************************)
DocIds == {"A", "B"}
NoChunks == <<>>

Seeds == 0 .. (NumSeeds - 1)
PointIds == 0 .. (IdSpace - 1)

\* f"{document_id}_page{page_number}_chunk{chunk_id}": injective in its three parts.
ChunkIdStr(d, chunk) == <<d, chunk.page_number, chunk.chunk_id>>

DocCode(d) == IF d = "A" THEN 1 ELSE 2

KeyCode(k) == DocCode(k[1]) * 16 + k[2] * 4 + k[3]

\* hash(str): a function of the string and of the process's seed, signed.
StrHash(s, k) == (((s + 1) * 7 * KeyCode(k) + 13 * s) % (4 * IdSpace)) - 2 * IdSpace

\* id = hash(chunk_id) % (2**63)
PointId(s, k) == StrHash(s, k) % IdSpace

CharCode(c) == IF c = SP THEN 0 ELSE IF c = "a" THEN 1 ELSE IF c = "b" THEN 2 ELSE 3

RECURSIVE SumCodes(_)
SumCodes(t) == IF t = <<>> THEN 0 ELSE CharCode(Head(t)) + SumCodes(Tail(t))

\* The Jina embedding of a text: a deterministic function of the text.
Embed(t) == SumCodes(t) % 4

AbsDiff(a, b) == IF a >= b THEN a - b ELSE b - a

\* Cosine similarity of two vectors, as an integer rank (higher is closer).
Score(q, v) == 1 - AbsDiff(q, v)

MakePoint(d, chunk) ==
    [ id      |-> PointId(seed, ChunkIdStr(d, chunk)),
      vector  |-> Embed(chunk.text),
      payload |-> [ chunk_id     |-> ChunkIdStr(d, chunk),
                    document_id  |-> d,
                    page_number  |-> chunk.page_number,
                    chunk_number |-> chunk.chunk_id,
                    text         |-> chunk.text ] ]

\* client.upsert: points are written in order, a later point with an id
\* already present overwrites it.
RECURSIVE Upsert(_, _)
Upsert(idx, points) ==
    IF points = <<>> THEN idx
    ELSE LET p == Head(points)
             ids == (DOMAIN idx) \cup {p.id}
         IN  Upsert([i \in ids |-> IF i = p.id THEN p ELSE idx[i]], Tail(points))

\* get_chunk_count: the number of points whose payload document_id is d.
Count(idx, d) == Cardinality({i \in DOMAIN idx : idx[i].payload.document_id = d})

\* An embedding failure that is passed over: the loop goes on without the chunk.
OnEmbedFailureSkip(rest) == rest

\* generate_embedding re-raises: the loop ends there and nothing it has
\* prepared is used.
OnEmbedFailure(rest) == [points |-> <<>>, raised |-> TRUE]

\* The loop of add_document_chunks from the i-th chunk on: the embedding of
\* the chunk, then its point appended to the batch.
\* embedFailAt = i > 0: generate_embedding raises at the i-th chunk.
RECURSIVE PreparePoints(_, _, _, _)
PreparePoints(d, chunks, i, embedFailAt) ==
    IF i > Len(chunks) THEN [points |-> <<>>, raised |-> FALSE]
    ELSE LET rest == PreparePoints(d, chunks, i + 1, embedFailAt)
         IN  IF i = embedFailAt THEN OnEmbedFailure(rest)
             ELSE [ points |-> <<MakePoint(d, chunks[i])>> \o rest.points,
                    raised |-> rest.raised ]

\* add_document_chunks: embeds every chunk, then upserts the whole batch.
AddDocumentChunks(idx, d, chunks, embedFailAt, upsertFails) ==
    IF chunks = <<>> THEN [index |-> idx, raised |-> FALSE]
    ELSE LET batch == PreparePoints(d, chunks, 1, embedFailAt)
         IN  IF batch.raised \/ upsertFails THEN [index |-> idx, raised |-> TRUE]
             ELSE [index |-> Upsert(idx, batch.points), raised |-> FALSE]

\* A search that forgets the document_id filter.
SearchFilterNone(p, d) == TRUE

\* query_filter: must[document_id == str(document_id)]
SearchFilter(p, d) == p.payload.document_id = d

\* Qdrant's ranking: higher score first, ties by point id.
Better(idx, q, i, j) ==
    \/ Score(q, idx[i].vector) > Score(q, idx[j].vector)
    \/ Score(q, idx[i].vector) = Score(q, idx[j].vector) /\ i <= j

RECURSIVE TopK(_, _, _, _)
TopK(idx, q, cand, k) ==
    IF cand = {} \/ k <= 0 THEN <<>>
    ELSE LET best == CHOOSE i \in cand : \A j \in cand : Better(idx, q, i, j)
         IN  <<[ id |-> best, payload |-> idx[best].payload,
                 score |-> Score(q, idx[best].vector) ]>>
             \o TopK(idx, q, cand \ {best}, k - 1)

\* client.search(query_vector, query_filter, limit=top_k)
ClientSearch(idx, q, d, k) ==
    TopK(idx, q, {i \in DOMAIN idx : SearchFilter(idx[i], d)}, k)

FormatResult(sp) ==
    [ text        |-> sp.payload.text,
      page_number |-> sp.payload.page_number,
      chunk_id    |-> sp.payload.chunk_number,
      distance    |-> 1 - sp.score ]

\* VectorService.search: embed the query, search with the filter, format.
Search(idx, query, d, k, embedFails) ==
    IF embedFails THEN [raised |-> TRUE, scored |-> <<>>, results |-> <<>>]
    ELSE LET sr == ClientSearch(idx, Embed(query), d, k)
         IN  [ raised  |-> FALSE,
               scored  |-> sr,
               results |-> [i \in 1 .. Len(sr) |-> FormatResult(sr[i])] ]

\* delete_document_chunks: delete by document_id filter; a failure is printed.
DeleteDocumentChunks(idx, d, fails) ==
    IF fails THEN idx
    ELSE [i \in {j \in DOMAIN idx : idx[j].payload.document_id # d} |-> idx[i]]

(***************************************************************************)
(* RAG generator (rag_service.py)                                          *)
(***************************************************************************)
\* conversation_history[-6:]
HISTORY_WINDOW == 6

Apology == <<"Sorry, I encountered an error generating a response.">>
ConnectError == <<"Error connecting to Groq AI. Error: ">>

\* The two system prompts and the headers they put before the context.
PromptFull == <<"You are DocGPT ... (generate_response)">>
PromptStream == <<"You are DocGPT ... (generate_response_stream)">>
HeaderFull == <<"\n\nDocument Content (use when relevant):\n">>
HeaderStream == <<"\n\nDocument Content:\n">>

\* A bug that keeps the first turns of the history instead of the last.
FirstTurns(h, n) == Slice(h, 0, n)

\* h[-n:]
LastTurns(h, n) == IF Len(h) > n THEN Slice(h, Len(h) - n, Len(h)) ELSE h

\* An assembler that writes the context section whatever the context is.
SystemPromptAlways(prompt, header, context) == prompt \o header \o context

\* if context: system_prompt += header + context
SystemPrompt(prompt, header, context) ==
    IF context # <<>> THEN prompt \o header \o context ELSE prompt

\* The messages list both generators build before calling the backend.
BuildMessages(prompt, header, query, context, history) ==
    LET recent == LastTurns(history, HISTORY_WINDOW)
    IN  <<[role |-> "system", content |-> SystemPrompt(prompt, header, context)]>>
        \o [i \in 1 .. Len(recent) |-> [role |-> recent[i].role, content |-> recent[i].content]]
        \o <<[role |-> "user", content |-> query]>>

\* The lines response.iter_lines() hands out, and the point where it raises.
Line(kind, content) == [kind |-> kind, content |-> content]
Delta(content) == Line("delta", content)
DoneLine == Line("done", <<>>)
EmptyLine == Line("empty", <<>>)
CommentLine == Line("comment", <<>>)
BadJson == Line("badjson", <<>>)
NoContent == Line("nodelta", <<>>)
Scalar == Line("scalar", <<>>)
Break == Line("break", <<>>)

Hel == <<"H", "e", "l">>
Lo == <<"l", "o">>

\* A generator that lets everything but request errors escape.
CatchesRequestErrors(exc) == exc = "request"

\* except Exception as e (rag_service.py:209)
Catches(exc) == TRUE

\* A generator that does not know the sentinel.
IsSentinelNever(line) == FALSE

\* data_str.strip() == '[DONE]'
IsSentinel(line) == line.kind = "done"

OnException(exc, pos) ==
    IF Catches(exc) THEN [phase |-> "apologized", pos |-> pos, yield |-> <<Apology>>]
    ELSE [phase |-> "raised", pos |-> pos, yield |-> <<>>]

\* The for loop over iter_lines from line pos on, up to its next yield or its end.
RECURSIVE ScanLines(_, _)
ScanLines(lines, pos) ==
    IF pos > Len(lines) THEN [phase |-> "ended", pos |-> pos, yield |-> <<>>]
    ELSE LET line == lines[pos]
         IN  IF line.kind = "break" THEN OnException("request", pos)
             ELSE IF line.kind \in {"empty", "comment"} THEN ScanLines(lines, pos + 1)
             ELSE IF IsSentinel(line) THEN [phase |-> "ended", pos |-> pos, yield |-> <<>>]
             ELSE IF line.kind \in {"badjson", "done"} THEN ScanLines(lines, pos + 1)
             ELSE IF line.kind = "scalar" THEN OnException("type", pos)
             ELSE IF line.kind = "delta"
                  THEN [phase |-> "open", pos |-> pos + 1, yield |-> <<line.content>>]
             ELSE ScanLines(lines, pos + 1)

\* One next() on generate_response_stream: runs it to its next yield, its end
\* or the exception that leaves it.
GenAdvance(script, phase, pos) ==
    IF phase = "new"
    THEN IF script.post # "ok" THEN OnException("request", 0)
         ELSE ScanLines(script.lines, 1)
    ELSE IF phase = "open" THEN ScanLines(script.lines, pos)
    ELSE [phase |-> IF phase = "raised" THEN "raised" ELSE "ended", pos |-> pos, yield |-> <<>>]

\* generate_response: one blocking call; body is what response.json() gives.
GenerateResponse(backend) ==
    IF backend.post # "ok"
    THEN IF Catches("request") THEN [raised |-> FALSE, returned |-> ConnectError]
         ELSE [raised |-> TRUE, returned |-> <<>>]
    ELSE IF backend.body = "nokey"
    THEN IF Catches("key") THEN [raised |-> FALSE, returned |-> Apology]
         ELSE [raised |-> TRUE, returned |-> <<>>]
    ELSE [raised |-> FALSE, returned |-> backend.text]

Script(post, lines) == [post |-> post, lines |-> lines]

\* Behaviours of the streaming backend.
Scripts ==
    { Script("ok", <<Delta(Hel), Delta(Lo), DoneLine>>),
      Script("ok", <<Delta(Hel), DoneLine, Delta(Lo)>>),
      Script("ok", <<EmptyLine, CommentLine, Delta(Hel), BadJson, NoContent, Delta(Lo)>>),
      Script("ok", <<Delta(Hel), Break, Delta(Lo)>>),
      Script("ok", <<Scalar, Delta(Lo)>>),
      Script("ok", <<>>),
      Script("transport", <<>>),
      Script("http", <<>>) }

\* Behaviours of the blocking backend.
Backends ==
    { [post |-> "ok", body |-> "good", text |-> Hel \o Lo],
      [post |-> "ok", body |-> "nokey", text |-> <<>>],
      [post |-> "transport", body |-> "good", text |-> <<>>],
      [post |-> "http", body |-> "good", text |-> <<>>] }

Turn(i) ==
    [ role |-> IF i % 2 = 1 THEN "user" ELSE "assistant",
      content |-> [k \in 1 .. i |-> "m"], created_at |-> i ]

Histories == { [i \in 1 .. n |-> Turn(i)] : n \in 0 .. MaxHist }

Contexts == { <<>>, <<"a", "\n\n", "b">> }

NoGen == [fn |-> "none"]
NoChunking == [fn |-> "none"]

(***************************************************************************)
(* Chat turn: POST /sessions/<session_id>/messages (chat_routes.py)        *)
(***************************************************************************)
Reqs == {"r1"}

\* "s9" is an id no session has.
SessionIds == {"s1", "s9"}

NewChat == <<"New Chat">>

\* message[:50]
TITLE_MAX == 50

\* vector_service.search(message, document_id, top_k=8)
TOP_K == 8

FallbackApology ==
    <<"I apologize, but I'm having trouble accessing the document content. Please try again.">>

Rep(c, n) == [i \in 1 .. n |-> c]

NoBody == [present |-> FALSE, message |-> <<>>]
Body(m) == [present |-> TRUE, message |-> m]

\* Request bodies: no message key, a blank message, a short and a long one.
Bodies == { NoBody, Body(<<SP, SP>>), Body(<<SP, "a", SP>>), Body(Rep("b", TITLE_MAX + 1)) }

SessionTitleCut(message) == Slice(message, 0, TITLE_MAX)

\* message[:50] + ('...' if len(message) > 50 else '')
SessionTitle(message) ==
    Slice(message, 0, TITLE_MAX) \o (IF Len(message) > TITLE_MAX THEN <<"...">> ELSE <<>>)

\* sep.join(texts)
RECURSIVE Join(_, _)
Join(texts, sep) ==
    IF texts = <<>> THEN <<>>
    ELSE IF Len(texts) = 1 THEN texts[1]
    ELSE texts[1] \o <<sep>> \o Join(Tail(texts), sep)

\* select ... from chat_messages where session_id = s order by created_at
SessionMessages(s) == SelectSeq(chat_messages, LAMBDA m : m.session_id = s)

\* previous_messages.data[-6:] if len(previous_messages.data) > 6 else previous_messages.data
RouteHistory(data) ==
    LET recent == LastTurns(data, HISTORY_WINDOW)
    IN  [i \in 1 .. Len(recent) |-> [role |-> recent[i].role, content |-> recent[i].content]]

\* A row of chat_messages; uuid4 gives every row of every turn its own id.
Message(turn, s, role, content, t) ==
    [ id |-> <<turn, role>>, session_id |-> s, role |-> role, content |-> content,
      created_at |-> t ]

\* f"data: {json.dumps(payload)}\n\n" and what the client reads back from it.
SseEvent(payload) == <<"data: ", payload, "\n\n">>
Payload(frame) == frame[2]

ChunkEvent(chunk) == [type |-> "chunk", chunk |-> chunk, message |-> <<>>]
DoneEvent(id) == [type |-> "done", chunk |-> <<>>, message |-> id]
ErrorEvent == [type |-> "error", chunk |-> <<>>, message |-> <<>>]

\* A turn that keeps only the latest delta.
AccumulateLatest(ai_response, chunk) == chunk

\* ai_response += chunk
Accumulate(ai_response, chunk) == ai_response \o chunk

\* A stream that reports done whether or not the insert went through.
PersistEventsAlwaysDone(inserted, id) == <<SseEvent(DoneEvent(id))>>

\* The end of generate(): the done event after the insert, the error event
\* when the insert raised.
PersistEvents(inserted, id) ==
    IF inserted THEN <<SseEvent(DoneEvent(id))>> ELSE <<SseEvent(ErrorEvent)>>

\* A route that retrieves the context first and saves the user turn after it.
PcAfterRetrieveFirst(pc) ==
    CASE pc = "get_session" -> "check_owner"
      [] pc = "check_owner" -> "count"
      [] pc = "count" -> "title"
      [] pc = "title" -> "history"
      [] pc = "history" -> "search"
      [] pc = "search" -> "save_user"
      [] pc = "save_user" -> "stream"

\* The order of the statements of send_message.
PcAfter(pc) ==
    CASE pc = "get_session" -> "check_owner"
      [] pc = "check_owner" -> "count"
      [] pc = "count" -> "title"
      [] pc = "title" -> "history"
      [] pc = "history" -> "save_user"
      [] pc = "save_user" -> "search"
      [] pc = "search" -> "stream"

NoScript == Script("none", <<>>)

Idle ==
    [ pc |-> "idle", turn |-> 0, user_id |-> "", session_id |-> "", message |-> <<>>,
      document_id |-> "", conversation_history |-> <<>>,
      user_saved |-> FALSE, searched |-> FALSE, context |-> <<>>,
      script |-> NoScript, gphase |-> "none", gpos |-> 0, messages |-> <<>>,
      ai_response |-> <<>>, events |-> <<>>, assistant_saved |-> FALSE, status |-> 0 ]

\* The request is answered with a JSON body of this status.
Respond(r, status) == [req[r] EXCEPT !.pc = "responded", !.status = status]

Ended == {"responded", "closed", "aborted"}

(***************************************************************************)
(* Inputs                                                                  *)
(***************************************************************************)
Chunk(p, c, t) == [page_number |-> p, chunk_id |-> c, text |-> t]

ChunkLists ==
    { <<Chunk(1, 0, <<"a">>)>>,
      <<Chunk(1, 0, <<"b">>), Chunk(1, 1, <<"a", SP, "b">>)>> }

Queries == { <<"a">>, <<"b", "b">> }

(***************************************************************************)
(* The constructor of VectorService: the collection and its initialisation *)
(***************************************************************************)
\* self.vector_size, the configured dimension of the embeddings. Only
\* equality of dimensions matters to the constructor, so a dimension is a name.
EMBEDDING_VECTOR_SIZE == "configured"

\* The dimension of a collection that an earlier embedding model left behind.
EarlierVectorSize == "earlier"

\* No dimension: of a collection that is not there, of a size not yet read.
NoVectorSize == "none"

Initialisers == {"v1", "v2"}

CollectionPointIds == 1 .. MaxPoints

ReadyCollection ==
    [ exists |-> TRUE, size |-> EMBEDDING_VECTOR_SIZE, points |-> {}, payload_index |-> TRUE ]

AbsentCollection ==
    [ exists |-> FALSE, size |-> NoVectorSize, points |-> {}, payload_index |-> FALSE ]

NotConstructed ==
    [ pc |-> "new", collection_exists |-> FALSE, existing_vector_size |-> NoVectorSize,
      warned |-> FALSE, sawConfigured |-> FALSE ]

\* A comparison that never sees a mismatch.
SizeMismatchNever(existing_vector_size) == FALSE

\* existing_vector_size != self.vector_size
SizeMismatch(existing_vector_size) == existing_vector_size # EMBEDDING_VECTOR_SIZE

\* client.delete_collection: the collection and everything in it is gone.
DeleteCollection(c) == AbsentCollection

\* client.create_collection with VectorParams(size=self.vector_size): a new,
\* empty collection; the backend refuses the name of an existing collection.
CreateCollection(c) ==
    IF c.exists THEN [collection |-> c, raised |-> TRUE]
    ELSE [ collection |-> [ exists |-> TRUE, size |-> EMBEDDING_VECTOR_SIZE,
                            points |-> {}, payload_index |-> FALSE ],
           raised |-> FALSE ]

\* client.create_payload_index on document_id; it needs the collection.
CreatePayloadIndex(c) ==
    IF c.exists THEN [collection |-> [c EXCEPT !.payload_index = TRUE], raised |-> FALSE]
    ELSE [collection |-> c, raised |-> TRUE]

\* The outer except of the constructor: a warning is printed and the
\* constructor returns.
Warned(v) == [ini EXCEPT ![v].pc = "done", ![v].warned = TRUE]

At(v, pc) == [ini EXCEPT ![v].pc = pc]

(***************************************************************************)
(* Initial state                                                           *)
(***************************************************************************)
NoCall == [op |-> "none"]

Init ==
    /\ seed \in Seeds
    /\ index = <<>>
    /\ indexed = [d \in DocIds |-> NoChunks]
    /\ ops = 0
    /\ last = NoCall
    /\ users = {}
    /\ documents = {}
    /\ blobs = {}
    /\ used = {}
    /\ g = NoGen
    /\ req = [r \in Reqs |-> Idle]
    /\ sessions = <<>>
    /\ chat_messages = <<>>
    /\ ck = NoChunking
    /\ coll = ReadyCollection
    /\ ini = [r \in Initialisers |-> NotConstructed]
    /\ now = 0

(***************************************************************************)
(* Operations on the index                                                 *)
(***************************************************************************)
\* The server process is restarted: Python draws a new string-hash seed.
Restart ==
    /\ ops < MaxOps
    /\ ops' = ops + 1
    /\ seed' \in Seeds
    /\ last' = NoCall
    /\ UNCHANGED <<index, indexed, storeVars, genVars, collVars, chatVars, chunkVars>>

\* A call of VectorService.add_document_chunks(document_id, chunks).
AddChunksCall ==
    \E d \in DocIds, chunks \in ChunkLists, embedFailAt \in 0 .. 2, upsertFails \in BOOLEAN :
        LET r == AddDocumentChunks(index, d, chunks, embedFailAt, upsertFails)
        IN  /\ ops < MaxOps
            /\ ops' = ops + 1
            /\ index' = r.index
            /\ indexed' = IF r.raised THEN indexed ELSE [indexed EXCEPT ![d] = chunks]
            /\ last' = [ op |-> "add", document_id |-> d, chunks |-> chunks,
                         raised |-> r.raised, repeat |-> (indexed[d] = chunks),
                         embedFailAt |-> embedFailAt,
                         before |-> Count(index, d), after |-> Count(r.index, d) ]
            /\ UNCHANGED <<seed, storeVars, genVars, collVars, chatVars, chunkVars>>

\* A call of VectorService.search(query, document_id, top_k).
SearchCall ==
    \E d \in DocIds, q \in Queries, k \in 1 .. MaxTopK, embedFails \in BOOLEAN :
        LET r == Search(index, q, d, k, embedFails)
        IN  /\ last' = [ op |-> "search", document_id |-> d, top_k |-> k,
                         raised |-> r.raised, scored |-> r.scored, results |-> r.results ]
            /\ UNCHANGED <<seed, index, indexed, ops, storeVars, genVars, collVars, chatVars, chunkVars>>

\* A call of VectorService.delete_document_chunks(document_id).
DeleteChunksCall ==
    \E d \in DocIds, fails \in BOOLEAN :
        /\ ops < MaxOps
        /\ ops' = ops + 1
        /\ index' = DeleteDocumentChunks(index, d, fails)
        /\ indexed' = IF fails THEN indexed ELSE [indexed EXCEPT ![d] = NoChunks]
        /\ last' = [op |-> "delete", document_id |-> d, failed |-> fails]
        /\ UNCHANGED <<seed, storeVars, genVars, collVars, chatVars, chunkVars>>

NextIndex == Restart \/ AddChunksCall \/ SearchCall \/ DeleteChunksCall

SpecIndex == Init /\ [][NextIndex]_vars

(***************************************************************************)
(* Document upload                                                         *)
(***************************************************************************)
Users == {"u1", "u2"}

\* The raw page texts of the uploaded PDFs.
Pdfs ==
    { << <<SP>> >>,
      << <<SP, "a">>, <<"b", SP>> >> }

PdfName == <<"d", ".", "P", "D", "F">>
TxtName == <<"d", ".", "t", "x", "t">>

\* request.files: no 'file' part, or a file with its name and content.
NoFile == [present |-> FALSE]
File(name, pdf) == [present |-> TRUE, filename |-> name, pdf |-> pdf]

Files ==
    {NoFile, File(<<>>, << <<SP>> >>)} \cup {File(PdfName, pdf) : pdf \in Pdfs}
        \cup {File(TxtName, pdf) : pdf \in Pdfs}

Lower(c) == IF c = "P" THEN "p" ELSE IF c = "D" THEN "d" ELSE IF c = "F" THEN "f" ELSE c

\* filename.rsplit('.', 1)[1]
RECURSIVE Extension(_)
Extension(name) ==
    IF name = <<>> THEN <<>>
    ELSE IF \E i \in 2 .. Len(name) : name[i] = "." THEN Extension(Tail(name))
    ELSE IF Head(name) = "." THEN Tail(name)
    ELSE name

\* FileUtils.allowed_file
ALLOWED_EXTENSIONS == { <<"p", "d", "f">> }

allowed_file(name) ==
    /\ \E i \in 1 .. Len(name) : name[i] = "."
    /\ [i \in 1 .. Len(Extension(name)) |-> Lower(Extension(name)[i])] \in ALLOWED_EXTENSIONS

\* What can go wrong in the collaborators during one upload.
\* before: the failure that ends the request before the embedding step;
\* indexing: the failure inside the embedding step.
UploadFailures ==
    [ user : BOOLEAN, before : {"none", "blob", "extract"},
      indexing : {"none", "vsInit", "embed", "upsert"},
      insert : BOOLEAN, blobDelete : BOOLEAN ]

EmbedFailAt(f) == IF f.indexing = "embed" THEN 1 ELSE 0

\* generate_unique_filename: a name no upload was given before.
FileNames == <<"f0", "f1", "f2", "f3", "f4", "f5", "f6", "f7">>
FileName(n) == FileNames[n + 1]

\* file_path = f"{user_id}/{unique_filename}", as its components.
BlobPath(u) == <<u, FileName(ops)>>

\* create_signed_url(file_path, ...)['signedURL'], as the components between
\* its slashes: the path in the bucket, with the token after the file name.
SignedUrl(path) ==
    <<"https:", "storage", "documents">> \o SubSeq(path, 1, Len(path) - 1)
        \o <<path[Len(path)] \o "?token=t">>

\* document['file_url'].split('/')[-1]: the path the delete route removes.
RouteBlobTarget(url) == <<url[Len(url)]>>

\* delete_from_supabase: for a URL, what follows the bucket name.
ServiceBlobTarget(url) ==
    IF url # <<>> /\ url[1] = "https:" /\ \E i \in DOMAIN url : url[i] = "documents"
    THEN LET at == CHOOSE i \in DOMAIN url :
                       /\ url[i] = "documents"
                       /\ \A j \in DOMAIN url : url[j] = "documents" => i <= j
         IN  SubSeq(url, at + 1, Len(url))
    ELSE url

\* uuid.uuid4(): an id no document was given before.
NewDocId == CHOOSE d \in DocIds \ used : TRUE

DocRecord(d, u, name, url) == [id |-> d, user_id |-> u, name |-> name, file_url |-> url]

\* The embedding step of the upload route: VectorService(), chunk_text, add_document_chunks.
RouteIndexing(d, pages, f) ==
    IF f.indexing = "vsInit" THEN [index |-> index, raised |-> TRUE]
    ELSE AddDocumentChunks(index, d,
             RouteChunkDicts(ChunkText(JoinPages(pages), CHUNK_SIZE, CHUNK_OVERLAP)),
             EmbedFailAt(f), f.indexing = "upsert")

\* The upload route after its embedding step: the exception of the step was
\* caught and printed, the document record is inserted in either case.
AfterIndexing(d, u, file, url, r, f) ==
    IF f.insert THEN [documents |-> documents, status |-> 500]
    ELSE [documents |-> documents \cup {DocRecord(d, u, file.filename, url)}, status |-> 201]

\* POST /api/documents/upload
\* file.filename; '' when the request has no file part.
FileNameOf(file) == IF file.present THEN file.filename ELSE <<>>

UploadRoute ==
    \E u \in Users, file \in Files, f \in UploadFailures :
        /\ ops < MaxUploads
        /\ used # DocIds
        /\ ops' = ops + 1
        /\ users' = IF f.user THEN users ELSE users \cup {u}
        /\ UNCHANGED <<seed, indexed, genVars, collVars, chatVars, chunkVars>>
        /\ IF ~file.present \/ file.filename = <<>>
           THEN /\ last' = [op |-> "upload_route", status |-> 422, started |-> FALSE,
                            filename |-> FileNameOf(file)]
                /\ UNCHANGED <<index, documents, blobs, used>>
           ELSE IF f.before = "blob"
           THEN /\ last' = [op |-> "upload_route", status |-> 500, started |-> FALSE,
                            filename |-> FileNameOf(file)]
                /\ UNCHANGED <<index, documents, blobs, used>>
           ELSE IF f.before = "extract"
           THEN /\ blobs' = blobs \cup {BlobPath(u)}
                /\ last' = [op |-> "upload_route", status |-> 500, started |-> FALSE,
                            filename |-> FileNameOf(file)]
                /\ UNCHANGED <<index, documents, used>>
           ELSE \E d \in {NewDocId} :
                    LET r == RouteIndexing(d, ExtractText(file.pdf), f)
                        a == AfterIndexing(d, u, file, SignedUrl(BlobPath(u)), r, f)
                    IN  /\ blobs' = blobs \cup {BlobPath(u)}
                        /\ used' = used \cup {d}
                        /\ index' = r.index
                        /\ documents' = a.documents
                        /\ last' = [ op |-> "upload_route", status |-> a.status,
                                     started |-> TRUE, document_id |-> d,
                                     indexingFailed |-> r.raised,
                                     pages |-> ExtractText(file.pdf),
                                     filename |-> FileNameOf(file) ]

\* DocumentService.upload_document
UploadService ==
    \E u \in Users, file \in Files \ {NoFile}, f \in UploadFailures :
        /\ ops < MaxUploads
        /\ used # DocIds
        /\ ops' = ops + 1
        /\ UNCHANGED <<seed, indexed, users, genVars, collVars, chatVars, chunkVars>>
        /\ IF ~allowed_file(file.filename) \/ f.before # "none"
           THEN /\ last' = [op |-> "upload_service", raised |-> TRUE, started |-> FALSE,
                            filename |-> FileNameOf(file)]
                /\ UNCHANGED <<index, documents, blobs, used>>
           ELSE IF f.insert
           THEN /\ blobs' = blobs \cup {BlobPath(u)}
                /\ last' = [op |-> "upload_service", raised |-> TRUE, started |-> FALSE,
                            filename |-> FileNameOf(file)]
                /\ UNCHANGED <<index, documents, used>>
           ELSE \E d \in {NewDocId} :
                    LET r == IF f.indexing = "vsInit" THEN [index |-> index, raised |-> TRUE]
                             ELSE AddDocumentChunks(index, d,
                                      ChunkPages(ExtractText(file.pdf), CHUNK_SIZE, CHUNK_OVERLAP),
                                      EmbedFailAt(f), f.indexing = "upsert")
                    IN  /\ used' = used \cup {d}
                        /\ index' = r.index
                        /\ documents' =
                               IF r.raised THEN documents
                               ELSE documents \cup
                                        {DocRecord(d, u, file.filename, SignedUrl(BlobPath(u)))}
                        /\ blobs' = IF r.raised /\ ~f.blobDelete
                                    THEN (blobs \cup {BlobPath(u)})
                                             \ {ServiceBlobTarget(SignedUrl(BlobPath(u)))}
                                    ELSE blobs \cup {BlobPath(u)}
                        /\ last' = [ op |-> "upload_service",
                                     raised |-> r.raised,
                                     started |-> TRUE, document_id |-> d,
                                     indexingFailed |-> r.raised,
                                     filename |-> FileNameOf(file) ]

NextUpload == UploadRoute \/ UploadService

SpecUpload == Init /\ [][NextUpload]_vars

(***************************************************************************)
(* Direct calls of the generator                                           *)
(***************************************************************************)
\* rag_service.generate_response_stream(query, context, history) is called:
\* a generator object, nothing has run yet.
StreamCall ==
    \E q \in Queries, c \in Contexts, h \in Histories, sc \in Scripts :
        /\ g.fn = "none"
        /\ g' = [ fn |-> "stream", query |-> q, context |-> c, history |-> h,
                  script |-> sc, phase |-> "new", pos |-> 0,
                  messages |-> <<>>, yielded |-> <<>> ]
        /\ UNCHANGED <<indexVars, storeVars, ops, last, chatVars, chunkVars, collVars>>

\* The caller takes the next item of the generator.
StreamNext ==
    /\ g.fn = "stream"
    /\ g.phase \in {"new", "open", "apologized"}
    /\ LET a == GenAdvance(g.script, g.phase, g.pos)
       IN  g' = [ g EXCEPT !.phase = a.phase, !.pos = a.pos,
                           !.yielded = g.yielded \o a.yield,
                           !.messages = IF g.phase = "new"
                                        THEN BuildMessages(PromptStream, HeaderStream,
                                                 g.query, g.context, g.history)
                                        ELSE g.messages ]
    /\ UNCHANGED <<indexVars, storeVars, ops, last, chatVars, chunkVars, collVars>>

\* rag_service.generate_response(query, context, history)
GenerateCall ==
    \E q \in Queries, c \in Contexts, h \in Histories, b \in Backends :
        /\ g.fn = "none"
        /\ LET r == GenerateResponse(b)
           IN  g' = [ fn |-> "generate", query |-> q, context |-> c, history |-> h,
                      backend |-> b, phase |-> IF r.raised THEN "raised" ELSE "ended",
                      messages |-> BuildMessages(PromptFull, HeaderFull, q, c, h),
                      returned |-> r.returned ]
        /\ UNCHANGED <<indexVars, storeVars, ops, last, chatVars, chunkVars, collVars>>

NextGen == StreamCall \/ StreamNext \/ GenerateCall

SpecGen == Init /\ [][NextGen]_vars

(***************************************************************************)
(* Steps of a chat turn                                                    *)
(***************************************************************************)
\* Four earlier exchanges of session "s1".
EarlierTurns ==
    [i \in 1 .. 8 |-> Message(i - 9, "s1", Turn(i).role, Turn(i).content, i - 9)]

\* One document of each user, both indexed or only the other user's, and one
\* session on the first.
InitChat ==
    /\ seed \in Seeds
    /\ \E chunks \in {NoChunks} \cup ChunkLists :
          /\ indexed = [d \in DocIds |-> IF d = "A" THEN chunks
                                         ELSE <<Chunk(1, 0, <<"a">>)>>]
          /\ index = AddDocumentChunks(
                         AddDocumentChunks(<<>>, "B", <<Chunk(1, 0, <<"a">>)>>, 0, FALSE).index,
                         "A", chunks, 0, FALSE).index
    /\ ops = 0
    /\ last = NoCall
    /\ users = Users
    /\ documents = { DocRecord("A", "u1", PdfName, SignedUrl(<<"u1", "f0">>)),
                     DocRecord("B", "u2", PdfName, SignedUrl(<<"u2", "f0">>)) }
    /\ blobs = { <<"u1", "f0">>, <<"u2", "f0">> }
    /\ used = DocIds
    /\ g = NoGen
    /\ req = [r \in Reqs |-> Idle]
    /\ sessions = [s \in {"s1"} |-> [document_id |-> "A", title |-> NewChat]]
    /\ chat_messages \in {<<>>, EarlierTurns}
    /\ ck = NoChunking
    /\ coll = ReadyCollection
    /\ ini = [r \in Initialisers |-> NotConstructed]
    /\ now = 0

\* The request arrives; body validation (chat_routes.py:45-53).
Begin(r) ==
    \E u \in Users, s \in SessionIds, b \in Bodies :
        /\ req[r].pc \in {"idle"} \cup Ended
        /\ ops < MaxTurns
        /\ ops' = ops + 1
        /\ req' = [req EXCEPT ![r] =
               IF ~b.present \/ Strip(b.message) = <<>>
               THEN [Idle EXCEPT !.pc = "responded", !.status = 422, !.turn = ops + 1,
                                 !.user_id = u, !.session_id = s]
               ELSE [Idle EXCEPT !.pc = "get_session", !.turn = ops + 1,
                                 !.user_id = u, !.session_id = s,
                                 !.message = Strip(b.message)]]
        /\ UNCHANGED <<indexVars, storeVars, genVars, collVars, chunkVars, last, sessions, chat_messages, now>>

\* select * from sessions where id = session_id
GetSession(r) ==
    \E fails \in BOOLEAN :
        /\ req[r].pc = "get_session"
        /\ req' = [req EXCEPT ![r] =
               IF fails THEN Respond(r, 500)
               ELSE IF req[r].session_id \notin DOMAIN sessions THEN Respond(r, 404)
               ELSE [req[r] EXCEPT !.pc = PcAfter("get_session"),
                                   !.document_id = sessions[req[r].session_id].document_id]]
        /\ UNCHANGED <<indexVars, storeVars, genVars, collVars, chunkVars, ops, last, sessions, chat_messages, now>>

\* select id from documents where id = document_id and user_id = request.user_id
CheckOwner(r) ==
    \E fails \in BOOLEAN :
        /\ req[r].pc = "check_owner"
        /\ req' = [req EXCEPT ![r] =
               IF fails THEN Respond(r, 500)
               ELSE IF ~\E d \in documents : d.id = req[r].document_id /\ d.user_id = req[r].user_id
               THEN Respond(r, 403)
               ELSE [req[r] EXCEPT !.pc = PcAfter("check_owner")]]
        /\ UNCHANGED <<indexVars, storeVars, genVars, collVars, chunkVars, ops, last, sessions, chat_messages, now>>

IsFirstMessageAtTwo(count) == count = 2

\* if messages_count.count == 0
IsFirstMessage(count) == count = 0

\* select count of the session's messages
CountMessages(r) ==
    \E fails \in BOOLEAN :
        /\ req[r].pc = "count"
        /\ req' = [req EXCEPT ![r] =
               IF fails THEN Respond(r, 500)
               ELSE IF IsFirstMessage(Len(SessionMessages(req[r].session_id)))
               THEN [req[r] EXCEPT !.pc = PcAfter("count")]
               ELSE [req[r] EXCEPT !.pc = PcAfter("title")]]
        /\ UNCHANGED <<indexVars, storeVars, genVars, collVars, chunkVars, ops, last, sessions, chat_messages, now>>

\* update sessions set title = ... where id = session_id
SetTitle(r) ==
    \E fails \in BOOLEAN :
        /\ req[r].pc = "title"
        /\ IF fails
           THEN /\ req' = [req EXCEPT ![r] = Respond(r, 500)]
                /\ UNCHANGED sessions
           ELSE /\ req' = [req EXCEPT ![r].pc = PcAfter("title")]
                /\ sessions' =
                       IF req[r].session_id \in DOMAIN sessions
                       THEN [sessions EXCEPT ![req[r].session_id].title =
                                 SessionTitle(req[r].message)]
                       ELSE sessions
        /\ UNCHANGED <<indexVars, storeVars, genVars, collVars, chunkVars, ops, last, chat_messages, now>>

\* select role, content, created_at ... order by created_at; the last six
FetchHistory(r) ==
    \E fails \in BOOLEAN :
        /\ req[r].pc = "history"
        /\ req' = [req EXCEPT ![r] =
               IF fails THEN Respond(r, 500)
               ELSE [req[r] EXCEPT !.pc = PcAfter("history"),
                        !.conversation_history =
                            RouteHistory(SessionMessages(req[r].session_id))]]
        /\ UNCHANGED <<indexVars, storeVars, genVars, collVars, chunkVars, ops, last, sessions, chat_messages, now>>

\* A table without the foreign key: any session id is taken.
SessionKeyUnchecked(s) == TRUE

\* chat_messages.session_id = ForeignKey('sessions.id'): the database takes a
\* message row only while the row of its session is there.
SessionKeyHolds(s) == s \in DOMAIN sessions

\* insert the user message
SaveUser(r) ==
    \E fails \in BOOLEAN :
        /\ req[r].pc = "save_user"
        /\ fails \/ SessionKeyHolds(req[r].session_id)
        /\ IF fails
           THEN /\ req' = [req EXCEPT ![r] = Respond(r, 500)]
                /\ UNCHANGED <<chat_messages, now>>
           ELSE /\ req' = [req EXCEPT ![r].pc = PcAfter("save_user"),
                                      ![r].user_saved = TRUE]
                /\ chat_messages' = Append(chat_messages,
                       Message(req[r].turn, req[r].session_id, "user", req[r].message, now))
                /\ now' = now + 1
        /\ UNCHANGED <<indexVars, storeVars, genVars, collVars, chunkVars, ops, last, sessions>>

\* VectorService(), vector_service.search, the context, and the streaming
\* Response around generate(); any exception leads to the fallback.
Retrieve(r) ==
    \E fault \in {"none", "vsInit", "embed", "search"} :
        /\ req[r].pc = "search"
        /\ LET sr == IF fault \in {"vsInit", "search"}
                     THEN [raised |-> TRUE, scored |-> <<>>, results |-> <<>>]
                     ELSE Search(index, req[r].message, req[r].document_id, TOP_K,
                                 fault = "embed")
           IN  req' = [req EXCEPT ![r] =
                   IF sr.raised THEN [req[r] EXCEPT !.pc = "fallback"]
                   ELSE [req[r] EXCEPT
                            !.pc = PcAfter("search"),
                            !.searched = TRUE,
                            !.context = Join([i \in 1 .. Len(sr.results) |-> sr.results[i].text],
                                             "\n\n"),
                            !.gphase = "new",
                            !.status = 200]]
        /\ UNCHANGED <<indexVars, storeVars, genVars, collVars, chunkVars, ops, last, sessions, chat_messages, now>>

\* The server takes the next event of generate(): the loop body for the next
\* delta of the generator, or the end of the loop.
StreamStep(r) ==
    \E sc \in IF req[r].gphase = "new" THEN Scripts ELSE {req[r].script} :
        /\ req[r].pc = "stream"
        /\ LET a == GenAdvance(sc, req[r].gphase, req[r].gpos)
               started == [req[r] EXCEPT
                              !.script = sc, !.gphase = a.phase, !.gpos = a.pos,
                              !.messages = IF req[r].gphase = "new"
                                           THEN BuildMessages(PromptStream, HeaderStream,
                                                    req[r].message, req[r].context,
                                                    req[r].conversation_history)
                                           ELSE req[r].messages]
           IN  req' = [req EXCEPT ![r] =
                   IF a.yield # <<>>
                   THEN [started EXCEPT
                            !.ai_response = Accumulate(req[r].ai_response, a.yield[1]),
                            !.events = Append(req[r].events, SseEvent(ChunkEvent(a.yield[1])))]
                   ELSE IF a.phase = "raised"
                   THEN [started EXCEPT !.pc = "closed",
                            !.events = Append(req[r].events, SseEvent(ErrorEvent))]
                   ELSE [started EXCEPT !.pc = "persist"]]
        /\ UNCHANGED <<indexVars, storeVars, genVars, collVars, chunkVars, ops, last, sessions, chat_messages, now>>

\* insert the assistant message, then the done event; the error event when
\* the insert raised.
PersistAssistant(r) ==
    \E fails \in BOOLEAN :
        /\ req[r].pc = "persist"
        /\ fails \/ SessionKeyHolds(req[r].session_id)
        /\ chat_messages' =
               IF fails THEN chat_messages
               ELSE Append(chat_messages,
                        Message(req[r].turn, req[r].session_id, "assistant", req[r].ai_response,
                                now))
        /\ now' = IF fails THEN now ELSE now + 1
        /\ req' = [req EXCEPT ![r].pc = "closed",
                              ![r].assistant_saved = ~fails,
                              ![r].events = req[r].events
                                  \o PersistEvents(~fails, <<req[r].turn, "assistant">>)]
        /\ UNCHANGED <<indexVars, storeVars, genVars, collVars, chunkVars, ops, last, sessions>>

\* The client goes away while generate() is suspended at the yield of a chunk
\* event: the server closes the generator, GeneratorExit passes the
\* except Exception clause.
Disconnect(r) ==
    /\ req[r].pc = "stream"
    /\ req[r].events # <<>>
    /\ req' = [req EXCEPT ![r].pc = "aborted"]
    /\ UNCHANGED <<indexVars, storeVars, genVars, collVars, chunkVars, ops, last, sessions, chat_messages, now>>

\* The fallback of the route: the apology is inserted and returned as JSON.
Fallback(r) ==
    \E fails \in BOOLEAN :
        /\ req[r].pc = "fallback"
        /\ fails \/ SessionKeyHolds(req[r].session_id)
        /\ IF fails
           THEN /\ req' = [req EXCEPT ![r] = Respond(r, 500)]
                /\ UNCHANGED <<chat_messages, now>>
           ELSE /\ req' = [req EXCEPT ![r] = [Respond(r, 200) EXCEPT !.assistant_saved = TRUE]]
                /\ chat_messages' = Append(chat_messages,
                       Message(req[r].turn, req[r].session_id, "assistant", FallbackApology, now))
                /\ now' = now + 1
        /\ UNCHANGED <<indexVars, storeVars, genVars, collVars, chunkVars, ops, last, sessions>>

NextChat ==
    \E r \in Reqs :
        \/ Begin(r)
        \/ GetSession(r)
        \/ CheckOwner(r)
        \/ CountMessages(r)
        \/ SetTitle(r)
        \/ FetchHistory(r)
        \/ SaveUser(r)
        \/ Retrieve(r)
        \/ StreamStep(r)
        \/ PersistAssistant(r)
        \/ Disconnect(r)
        \/ Fallback(r)

SpecChat == InitChat /\ [][NextChat]_vars

(***************************************************************************)
(* Direct calls of the chunker (pdf_utils.py)                              *)
(***************************************************************************)
\* All texts of letters and blanks up to the given length.
RECURSIVE TextsUpTo(_)
TextsUpTo(n) ==
    IF n = 0 THEN {<<>>}
    ELSE LET shorter == TextsUpTo(n - 1)
         IN  shorter \cup { Append(t, c) : t \in {u \in shorter : Len(u) = n - 1},
                                           c \in {"a", SP} }

Letters == <<"a", "b", "c", "d", "e", "f", "g">>

\* A page of n characters without blanks; the character tells its position.
LongPage(n) == [i \in 1 .. n |-> Letters[(i % 7) + 1]]

\* PDFs of short pages, and one whose first page has 3000 characters.
ShortPdfs ==
    { << <<"a", "b", "c", "d", "e">> >>,
      << <<"a", SP, "b">>, <<SP>>, <<"c", "d", "e", "f">> >>,
      << <<SP, SP>>, <<"a", "b", SP, SP, "c">> >> }

LongPdf == << LongPage(3000), <<"a", "b">> >>

\* The calls of chunk_pages: the short PDFs with small and with the configured
\* sizes, the long one with the configured sizes.
ChunkPagesCalls ==
    (ShortPdfs \X (((1 .. MaxSize) \X (0 - 1 .. MaxOverlap)) \cup {<<CHUNK_SIZE, CHUNK_OVERLAP>>}))
        \cup {<<LongPdf, <<CHUNK_SIZE, CHUNK_OVERLAP>>>>}

\* PDFUtils.chunk_text(text, chunk_size, chunk_overlap) is entered.
ChunkTextCall ==
    \E text \in TextsUpTo(MaxText), chunk_size \in 1 .. MaxSize,
       chunk_overlap \in 0 - 1 .. MaxOverlap :
        /\ ck.fn = "none"
        /\ ck' = [ fn |-> "chunk_text", text |-> text, chunk_size |-> chunk_size,
                   chunk_overlap |-> chunk_overlap,
                   pc |-> IF text = <<>> THEN "done" ELSE "loop",
                   start |-> 0, starts |-> <<>>, chunks |-> <<>> ]
        /\ UNCHANGED <<indexVars, storeVars, genVars, collVars, chatVars, ops, last>>

\* One test of the while condition and, when it holds, one pass of the body.
ChunkLoop ==
    /\ ck.fn = "chunk_text"
    /\ ck.pc = "loop"
    /\ IF ck.start < Len(ck.text)
       THEN LET end == ck.start + ck.chunk_size
                chunk == Slice(ck.text, ck.start, end)
            IN  ck' = [ck EXCEPT
                          !.chunks = IF KeepsChunk(chunk) THEN Append(ck.chunks, Strip(chunk))
                                     ELSE ck.chunks,
                          !.starts = Append(ck.starts, ck.start),
                          !.start = NextStart(end, ck.chunk_size, ck.chunk_overlap)]
       ELSE ck' = [ck EXCEPT !.pc = "done"]
    /\ UNCHANGED <<indexVars, storeVars, genVars, collVars, chatVars, ops, last>>

\* PDFUtils.chunk_pages(extract_text_from_pdf(pdf), chunk_size, chunk_overlap)
ChunkPagesCall ==
    \E call \in ChunkPagesCalls :
        /\ ck.fn = "none"
        /\ ck' = [ fn |-> "chunk_pages", pages |-> ExtractText(call[1]),
                   chunk_size |-> call[2][1], chunk_overlap |-> call[2][2],
                   result |-> ChunkPages(ExtractText(call[1]), call[2][1], call[2][2]) ]
        /\ UNCHANGED <<indexVars, storeVars, genVars, collVars, chatVars, ops, last>>

NextChunk == ChunkTextCall \/ ChunkLoop \/ ChunkPagesCall

SpecChunk == Init /\ [][NextChunk]_vars

\* The loop of chunk_text is not suspended for ever: it is plain computation.
FairSpecChunk == SpecChunk /\ WF_vars(ChunkLoop)

(***************************************************************************)
(* Document deletion                                                       *)
(***************************************************************************)
SessionsOf(d) == { sid \in DOMAIN sessions : sessions[sid].document_id = d }

\* The first n turns of a session that began before the behaviour.
StoredTurns(sid, base, n) ==
    [i \in 1 .. n |-> Message((base + i) - 100, sid, Turn(i).role, Turn(i).content,
                            (base + i) - 100)]

\* Document "A" of user "u1" with up to two sessions and their messages,
\* document "B" of user "u2" with one session; both indexed or only "B".
InitDelete ==
    /\ seed \in Seeds
    /\ \E chunks \in {NoChunks} \cup ChunkLists :
          /\ indexed = [d \in DocIds |-> IF d = "A" THEN chunks
                                         ELSE <<Chunk(1, 0, <<"a">>)>>]
          /\ index = AddDocumentChunks(
                         AddDocumentChunks(<<>>, "B", <<Chunk(1, 0, <<"a">>)>>, 0, FALSE).index,
                         "A", chunks, 0, FALSE).index
    /\ ops = 0
    /\ last = NoCall
    /\ users = Users
    /\ documents = { DocRecord("A", "u1", PdfName, SignedUrl(<<"u1", "f0">>)),
                     DocRecord("B", "u2", PdfName, SignedUrl(<<"u2", "f0">>)) }
    /\ blobs = { <<"u1", "f0">>, <<"u2", "f0">> }
    /\ used = DocIds
    /\ g = NoGen
    /\ req = [r \in Reqs |-> Idle]
    /\ ck = NoChunking
    /\ coll = ReadyCollection
    /\ ini = [r \in Initialisers |-> NotConstructed]
    /\ now = 0
    /\ \E own \in { {}, {"s1"}, {"s1", "s2"} } :
          /\ sessions = [sid \in own \cup {"s3"} |->
                            [ document_id |-> IF sid = "s3" THEN "B" ELSE "A",
                              title |-> NewChat ]]
          /\ \E m1 \in 0 .. MaxMsgs, m2 \in 0 .. MaxMsgs - 1 :
                /\ "s1" \notin own => m1 = 0
                /\ "s2" \notin own => m2 = 0
                /\ chat_messages = StoredTurns("s1", 0, m1) \o StoredTurns("s3", 20, 1)
                                       \o StoredTurns("s2", 10, m2)

DeleteFailure(db, vector, blob) == [db |-> db, vector |-> vector, blob |-> blob]

\* What goes wrong during one deletion: nothing, one database call, the
\* index, the blob store, or the index and the blob store.
DeleteFailures ==
    { DeleteFailure(db, "none", FALSE) : db \in {"none", "lookup", "messages", "sessions", "record"} }
        \cup { DeleteFailure("none", v, b) : v \in {"none", "vsInit", "delete"}, b \in BOOLEAN }

\* A delete route whose steps 3 and 4 are not wrapped in try/except.
RouteCatchesNothing(step) == FALSE

\* try: ... except Exception as e: print(...) around steps 3 and 4
RouteCatches(step) == TRUE

\* DELETE /api/documents/<document_id>: what the route leaves behind and answers.
DeleteRouteOutcome(u, d, f) ==
    LET owned == \E doc \in documents : doc.id = d /\ doc.user_id = u
        same == [ status |-> 0, owned |-> owned, vectorFailed |-> FALSE, blobFailed |-> FALSE,
                  chat_messages |-> chat_messages, sessions |-> sessions, index |-> index,
                  blobs |-> blobs, documents |-> documents ]
    IN  IF f.db = "lookup" THEN [same EXCEPT !.status = 500]
        ELSE IF ~owned THEN [same EXCEPT !.status = 404]
        ELSE IF f.db = "messages" THEN [same EXCEPT !.status = 500]
        ELSE
        LET doc == CHOOSE doc \in documents : doc.id = d /\ doc.user_id = u
            sids == SessionsOf(d)
            s1 == [same EXCEPT !.chat_messages =
                       SelectSeq(chat_messages, LAMBDA m : m.session_id \notin sids)]
        IN  IF f.db = "sessions" THEN [s1 EXCEPT !.status = 500]
            ELSE
            LET s2 == [s1 EXCEPT !.sessions = [sid \in DOMAIN sessions \ sids |-> sessions[sid]]]
                s3 == IF f.vector = "vsInit" THEN [s2 EXCEPT !.vectorFailed = TRUE]
                      ELSE [s2 EXCEPT !.vectorFailed = (f.vector = "delete"),
                                      !.index = DeleteDocumentChunks(index, d, f.vector = "delete")]
            IN  IF f.vector = "vsInit" /\ ~RouteCatches("embeddings")
                THEN [s3 EXCEPT !.status = 500]
                ELSE
                LET s4 == IF f.blob THEN [s3 EXCEPT !.blobFailed = TRUE]
                          ELSE [s3 EXCEPT !.blobs = blobs \ {RouteBlobTarget(doc.file_url)}]
                IN  IF f.blob /\ ~RouteCatches("file") THEN [s4 EXCEPT !.status = 500]
                    ELSE IF f.db = "record" THEN [s4 EXCEPT !.status = 500]
                    ELSE [s4 EXCEPT !.status = 200, !.documents = documents \ {doc}]

DeleteRoute ==
    \E u \in Users, d \in DocIds \cup {"Z"}, f \in DeleteFailures :
        LET o == DeleteRouteOutcome(u, d, f)
        IN  /\ ops < MaxDeletes
            /\ ops' = ops + 1
            /\ chat_messages' = o.chat_messages
            /\ sessions' = o.sessions
            /\ index' = o.index
            /\ indexed' = IF o.owned /\ Count(o.index, d) = 0
                          THEN [indexed EXCEPT ![d] = NoChunks] ELSE indexed
            /\ blobs' = o.blobs
            /\ documents' = o.documents
            /\ last' = [ op |-> "delete_route", user_id |-> u, document_id |-> d,
                         status |-> o.status, owned |-> o.owned,
                         dbFailed |-> f.db # "none",
                         vectorFailed |-> o.vectorFailed, blobFailed |-> o.blobFailed,
                         session_ids |-> SessionsOf(d) ]
            /\ UNCHANGED <<seed, users, used, genVars, collVars, req, now, chunkVars>>

\* DocumentService.delete_document(document_id, user_id): get_document, then
\* the index, the blob and the record; the record's delete cascades.
DeleteServiceOutcome(u, d, f) ==
    LET same == [ raised |-> "none", owned |-> FALSE, vectorFailed |-> FALSE,
                  blobFailed |-> FALSE,
                  chat_messages |-> chat_messages, sessions |-> sessions, index |-> index,
                  blobs |-> blobs, documents |-> documents ]
    IN  IF f.db = "lookup" THEN [same EXCEPT !.raised = "Exception"]
        ELSE IF ~\E doc \in documents : doc.id = d THEN [same EXCEPT !.raised = "ValueError"]
        ELSE
        LET doc == CHOOSE doc \in documents : doc.id = d
            sids == SessionsOf(d)
        IN  IF doc.user_id # u THEN [same EXCEPT !.raised = "PermissionError"]
            ELSE
            LET s1 == [same EXCEPT !.owned = TRUE,
                          !.vectorFailed = (f.vector = "delete"),
                          !.index = DeleteDocumentChunks(index, d, f.vector = "delete"),
                          !.blobFailed = f.blob,
                          !.blobs = IF f.blob THEN blobs
                                    ELSE blobs \ {ServiceBlobTarget(doc.file_url)}]
            IN  IF f.db = "record" THEN [s1 EXCEPT !.raised = "Exception"]
                ELSE [s1 EXCEPT
                         !.documents = documents \ {doc},
                         !.sessions = [sid \in DOMAIN sessions \ sids |-> sessions[sid]],
                         !.chat_messages =
                             SelectSeq(chat_messages, LAMBDA m : m.session_id \notin sids)]

DeleteService ==
    \E u \in Users, d \in DocIds \cup {"Z"},
       f \in { x \in DeleteFailures : x.db \in {"none", "lookup", "record"}
                                       /\ x.vector \in {"none", "delete"} } :
        LET o == DeleteServiceOutcome(u, d, f)
        IN  /\ ops < MaxDeletes
            /\ ops' = ops + 1
            /\ chat_messages' = o.chat_messages
            /\ sessions' = o.sessions
            /\ index' = o.index
            /\ indexed' = IF o.owned /\ Count(o.index, d) = 0
                          THEN [indexed EXCEPT ![d] = NoChunks] ELSE indexed
            /\ blobs' = o.blobs
            /\ documents' = o.documents
            /\ last' = [ op |-> "delete_service", user_id |-> u, document_id |-> d,
                         raised |-> o.raised, owned |-> o.owned,
                         dbFailed |-> f.db # "none",
                         vectorFailed |-> o.vectorFailed, blobFailed |-> o.blobFailed,
                         session_ids |-> SessionsOf(d) ]
            /\ UNCHANGED <<seed, users, used, genVars, collVars, req, now, chunkVars>>

NextDelete == DeleteRoute \/ DeleteService

SpecDelete == InitDelete /\ [][NextDelete]_vars

(***************************************************************************)
(* Session and document routes other than upload, chat and deletion        *)
(***************************************************************************)
\* Ids a request can address: the stored ones and one that is not stored.
DocTargets == DocIds \cup {"Z"}
SessionTargets == {"s1", "s3", "s9"}

\* str(uuid.uuid4()) of create_session: an id no stored session has.
FreshSessionIds == {"n1", "n2", "n3", "n4"}
NewSessionId == CHOOSE s \in FreshSessionIds : s \notin DOMAIN sessions

Titles == {NewChat, <<"t">>}

\* select id from documents where id = document_id and user_id = request.user_id
OwnedByQuery(u, d) == \E doc \in documents : doc.id = d /\ doc.user_id = u

\* DocumentRepository.check_ownership
check_ownership(d, u) == \E doc \in documents : doc.id = d /\ doc.user_id = u

\* The documents whose sessions or messages a response body carries.
DocsOfSessions(sids) == { sessions[s].document_id : s \in sids \cap DOMAIN sessions }
DocsOfMessages(ms) == DocsOfSessions({ ms[i].session_id : i \in DOMAIN ms })

Answer(status, read) ==
    [ status |-> status, read |-> read, sessions |-> sessions,
      chat_messages |-> chat_messages ]

\* One session: stored with document "A" of "u1" and "B" of "u2".
InitAccess ==
    /\ seed \in Seeds
    /\ indexed = [d \in DocIds |-> <<Chunk(1, 0, <<"a">>)>>]
    /\ index = AddDocumentChunks(
                   AddDocumentChunks(<<>>, "B", <<Chunk(1, 0, <<"a">>)>>, 0, FALSE).index,
                   "A", <<Chunk(1, 0, <<"a">>)>>, 0, FALSE).index
    /\ ops = 0
    /\ last = NoCall
    /\ users = Users
    /\ documents = { DocRecord("A", "u1", PdfName, SignedUrl(<<"u1", "f0">>)),
                     DocRecord("B", "u2", PdfName, SignedUrl(<<"u2", "f0">>)) }
    /\ blobs = { <<"u1", "f0">>, <<"u2", "f0">> }
    /\ used = DocIds
    /\ g = NoGen
    /\ req = [r \in Reqs |-> Idle]
    /\ ck = NoChunking
    /\ coll = ReadyCollection
    /\ ini = [r \in Initialisers |-> NotConstructed]
    /\ now = 0
    /\ sessions = [sid \in {"s1", "s3"} |->
                      [ document_id |-> IF sid = "s3" THEN "B" ELSE "A", title |-> NewChat ]]
    /\ \E m1 \in 0 .. MaxMsgs :
          chat_messages = StoredTurns("s1", 0, m1) \o StoredTurns("s3", 20, 1)

\* What every one of these routes does around its outcome.
Answered(op, u, kind, id, failed, o) ==
    /\ ops' = ops + 1
    /\ sessions' = o.sessions
    /\ chat_messages' = o.chat_messages
    /\ last' = [ op |-> op, user_id |-> u, kind |-> kind, target |-> id,
                 dbFailed |-> failed, status |-> o.status, read |-> o.read ]
    /\ UNCHANGED <<indexVars, storeVars, genVars, collVars, req, now, chunkVars>>

\* GET /sessions/<session_id>/messages
GetMessagesOutcome(u, s, failed) ==
    IF failed THEN Answer(500, {})
    ELSE Answer(200, DocsOfMessages(SessionMessages(s)))

GetMessages ==
    \E u \in Users, s \in SessionTargets, failed \in BOOLEAN :
        /\ ops < MaxCalls
        /\ Answered("get_messages", u, "session", s, failed, GetMessagesOutcome(u, s, failed))

\* SessionService.get_session and the same two checks of ChatService
SessionGuard(u, s) ==
    IF s \notin DOMAIN sessions THEN "ValueError"
    ELSE IF ~check_ownership(sessions[s].document_id, u) THEN "PermissionError"
    ELSE "none"

\* except ValueError -> 404, except PermissionError -> 403
StatusOfRaise(raised) == IF raised = "ValueError" THEN 404 ELSE 403

\* DELETE /sessions/<session_id>/clear
ClearSessionHistoryOutcome(u, s, failed) ==
    IF failed THEN Answer(500, {})
    ELSE IF SessionGuard(u, s) # "none" THEN Answer(StatusOfRaise(SessionGuard(u, s)), {})
    ELSE [Answer(200, {}) EXCEPT
             !.chat_messages = SelectSeq(chat_messages, LAMBDA m : m.session_id # s)]

ClearSessionHistory ==
    \E u \in Users, s \in SessionTargets, failed \in BOOLEAN :
        /\ ops < MaxCalls
        /\ Answered("clear_session_history", u, "session", s, failed,
                    ClearSessionHistoryOutcome(u, s, failed))

\* POST /sessions/document/<document_id>
CreateSessionOutcome(u, d, title, failed) ==
    IF failed THEN Answer(500, {})
    ELSE IF ~OwnedByQuery(u, d) THEN Answer(403, {})
    ELSE [Answer(201, {d}) EXCEPT
             !.sessions = [sid \in DOMAIN sessions \cup {NewSessionId} |->
                              IF sid = NewSessionId
                              THEN [document_id |-> d, title |-> title]
                              ELSE sessions[sid]]]

CreateSession ==
    \E u \in Users, d \in DocTargets, title \in Titles, failed \in BOOLEAN :
        /\ ops < MaxCalls
        /\ Answered("create_session", u, "document", d, failed,
                    CreateSessionOutcome(u, d, title, failed))

\* GET /sessions/document/<document_id>
GetDocumentSessionsOutcome(u, d, failed) ==
    IF failed THEN Answer(500, {})
    ELSE IF ~OwnedByQuery(u, d) THEN Answer(403, {})
    ELSE Answer(200, DocsOfSessions(SessionsOf(d)))

GetDocumentSessions ==
    \E u \in Users, d \in DocTargets, failed \in BOOLEAN :
        /\ ops < MaxCalls
        /\ Answered("get_document_sessions", u, "document", d, failed,
                    GetDocumentSessionsOutcome(u, d, failed))

\* GET /sessions/<session_id>
GetSessionOutcome(u, s, failed) ==
    IF failed THEN Answer(500, {})
    ELSE IF SessionGuard(u, s) # "none" THEN Answer(StatusOfRaise(SessionGuard(u, s)), {})
    ELSE Answer(200, DocsOfSessions({s}))

GetSessionRoute ==
    \E u \in Users, s \in SessionTargets, failed \in BOOLEAN :
        /\ ops < MaxCalls
        /\ Answered("get_session", u, "session", s, failed, GetSessionOutcome(u, s, failed))

\* PATCH /sessions/<session_id>; the body has a title or has none
UpdateSessionOutcome(u, s, hasTitle, title, failed) ==
    IF ~hasTitle THEN Answer(422, {})
    ELSE IF failed THEN Answer(500, {})
    ELSE IF SessionGuard(u, s) # "none" THEN Answer(StatusOfRaise(SessionGuard(u, s)), {})
    ELSE [Answer(200, DocsOfSessions({s})) EXCEPT !.sessions = [sessions EXCEPT ![s].title = title]]

UpdateSession ==
    \E u \in Users, s \in SessionTargets, hasTitle \in BOOLEAN, failed \in BOOLEAN :
        /\ ops < MaxCalls
        /\ Answered("update_session", u, "session", s, failed,
                    UpdateSessionOutcome(u, s, hasTitle, <<"t">>, failed))

\* DELETE /sessions/<session_id>
DeleteSessionOutcome(u, s, failed) ==
    IF failed THEN Answer(500, {})
    ELSE IF s \notin DOMAIN sessions THEN Answer(404, {})
    ELSE IF ~OwnedByQuery(u, sessions[s].document_id) THEN Answer(403, {})
    ELSE [Answer(200, {}) EXCEPT
             !.chat_messages = SelectSeq(chat_messages, LAMBDA m : m.session_id # s),
             !.sessions = [sid \in DOMAIN sessions \ {s} |-> sessions[sid]]]

DeleteSession ==
    \E u \in Users, s \in SessionTargets, failed \in BOOLEAN :
        /\ ops < MaxCalls
        /\ Answered("delete_session", u, "session", s, failed, DeleteSessionOutcome(u, s, failed))

\* DocumentService.get_document
get_document(d, u) ==
    IF ~\E doc \in documents : doc.id = d THEN "ValueError"
    ELSE IF ~\E doc \in documents : doc.id = d /\ doc.user_id = u THEN "PermissionError"
    ELSE "none"

\* GET /documents/<document_id>
GetDocumentOutcome(u, d, failed) ==
    IF failed THEN Answer(500, {})
    ELSE IF get_document(d, u) # "none" THEN Answer(StatusOfRaise(get_document(d, u)), {})
    ELSE Answer(200, {d})

GetDocument ==
    \E u \in Users, d \in DocTargets, failed \in BOOLEAN :
        /\ ops < MaxCalls
        /\ Answered("get_document", u, "document", d, failed, GetDocumentOutcome(u, d, failed))

NextAccess ==
    \/ GetMessages
    \/ ClearSessionHistory
    \/ CreateSession
    \/ GetDocumentSessions
    \/ GetSessionRoute
    \/ UpdateSession
    \/ DeleteSession
    \/ GetDocument
    \/ DeleteRoute

SpecAccess == InitAccess /\ [][NextAccess]_vars

(***************************************************************************)
(* Chat turns with clear_session_history between them                      *)
(***************************************************************************)
\* DELETE /sessions/<session_id>/clear while no send_message is under way.
ClearBetweenTurns ==
    \E u \in Users, s \in SessionIds :
        LET o == ClearSessionHistoryOutcome(u, s, FALSE)
        IN  /\ \A r \in Reqs : req[r].pc \in {"idle"} \cup Ended
            /\ chat_messages # o.chat_messages \/ last.op # "clear_session_history"
            /\ chat_messages' = o.chat_messages
            /\ last' = [ op |-> "clear_session_history", user_id |-> u, kind |-> "session",
                         target |-> s, dbFailed |-> FALSE, status |-> o.status,
                         read |-> o.read ]
            /\ UNCHANGED <<indexVars, storeVars, genVars, collVars, chunkVars, ops, req, sessions, now>>

NextTitle == NextChat \/ ClearBetweenTurns

SpecTitle == InitChat /\ [][NextTitle]_vars

(***************************************************************************)
(* Two send_message requests under way at once                             *)
(***************************************************************************)
\* The two request threads of the server.
Racers == {"r1", "r2"}

\* A fresh session "s1" on document "A" of "u1"; both requests still to come.
InitRace ==
    /\ seed \in Seeds
    /\ indexed = [d \in DocIds |-> <<Chunk(1, 0, <<"a">>)>>]
    /\ index = AddDocumentChunks(
                   AddDocumentChunks(<<>>, "B", <<Chunk(1, 0, <<"a">>)>>, 0, FALSE).index,
                   "A", <<Chunk(1, 0, <<"a">>)>>, 0, FALSE).index
    /\ ops = MaxTurns - 2
    /\ last = NoCall
    /\ users = Users
    /\ documents = { DocRecord("A", "u1", PdfName, SignedUrl(<<"u1", "f0">>)),
                     DocRecord("B", "u2", PdfName, SignedUrl(<<"u2", "f0">>)) }
    /\ blobs = { <<"u1", "f0">>, <<"u2", "f0">> }
    /\ used = DocIds
    /\ g = NoGen
    /\ req = [r \in Racers |-> Idle]
    /\ sessions = [s \in {"s1"} |-> [document_id |-> "A", title |-> NewChat]]
    /\ chat_messages = <<>>
    /\ ck = NoChunking
    /\ coll = ReadyCollection
    /\ ini = [r \in Initialisers |-> NotConstructed]
    /\ now = 0

NextRace ==
    \E r \in Racers :
        \/ Begin(r)
        \/ GetSession(r)
        \/ CheckOwner(r)
        \/ CountMessages(r)
        \/ SetTitle(r)
        \/ FetchHistory(r)
        \/ SaveUser(r)
        \/ Retrieve(r)
        \/ StreamStep(r)
        \/ PersistAssistant(r)
        \/ Disconnect(r)
        \/ Fallback(r)

SpecRace == InitRace /\ [][NextRace]_vars

(***************************************************************************)
(* DELETE /api/documents/<id> step by step, beside a send_message request  *)
(* and a create_session request                                            *)
(***************************************************************************)
DeleteIdle ==
    [ pc |-> "idle", user_id |-> "", document_id |-> "", document |-> {},
      session_ids |-> {}, vectorFailed |-> FALSE, blobFailed |-> FALSE, status |-> 0 ]

CreateIdle == [ pc |-> "idle", user_id |-> "", document_id |-> "", status |-> 0 ]

Finished(w, status) == [req EXCEPT ![w].pc = "responded", ![w].status = status]

\* sessions.document_id = ForeignKey('documents.id', ondelete='CASCADE') and
\* chat_messages.session_id = ForeignKey('sessions.id', ondelete='CASCADE'):
\* what is left of the two tables when the sessions sids go.
WithoutSessions(sids) ==
    [ sessions |-> [sid \in DOMAIN sessions \ sids |-> sessions[sid]],
      chat_messages |-> SelectSeq(chat_messages, LAMBDA m : m.session_id \notin sids) ]

\* sessions.document_id = ForeignKey('documents.id'): a session row is taken
\* only while the row of its document is there.
DocumentKeyHolds(d) == \E doc \in documents : doc.id = d

InitDeleteRace ==
    /\ seed \in Seeds
    /\ indexed = [d \in DocIds |-> <<Chunk(1, 0, <<"a">>)>>]
    /\ index = AddDocumentChunks(
                   AddDocumentChunks(<<>>, "B", <<Chunk(1, 0, <<"a">>)>>, 0, FALSE).index,
                   "A", <<Chunk(1, 0, <<"a">>)>>, 0, FALSE).index
    /\ ops = MaxTurns - 1
    /\ last = NoCall
    /\ users = Users
    /\ documents = { DocRecord("A", "u1", PdfName, SignedUrl(<<"u1", "f0">>)),
                     DocRecord("B", "u2", PdfName, SignedUrl(<<"u2", "f0">>)) }
    /\ blobs = { <<"u1", "f0">>, <<"u2", "f0">> }
    /\ used = DocIds
    /\ g = NoGen
    /\ req = [w \in {"r1", "del", "new"} |->
                 IF w = "r1" THEN Idle ELSE IF w = "del" THEN DeleteIdle ELSE CreateIdle]
    /\ sessions = [s \in {"s1"} |-> [document_id |-> "A", title |-> NewChat]]
    /\ chat_messages = StoredTurns("s1", 0, 2)
    /\ ck = NoChunking
    /\ coll = ReadyCollection
    /\ ini = [r \in Initialisers |-> NotConstructed]
    /\ now = 0

\* select * from documents where id = document_id and user_id = request.user_id
DelLookup ==
    \E u \in Users, fails \in BOOLEAN :
        /\ req["del"].pc = "idle"
        /\ req' = IF fails THEN Finished("del", 500)
                  ELSE IF ~OwnedByQuery(u, "A") THEN Finished("del", 404)
                  ELSE [req EXCEPT !["del"].pc = "select_sessions",
                                   !["del"].user_id = u,
                                   !["del"].document_id = "A",
                                   !["del"].document =
                                       {doc \in documents : doc.id = "A" /\ doc.user_id = u}]
        /\ UNCHANGED <<indexVars, storeVars, genVars, collVars, chunkVars, ops, last,
                       sessions, chat_messages, now>>

\* select id from sessions where document_id = document_id
DelSelectSessions ==
    \E fails \in BOOLEAN :
        /\ req["del"].pc = "select_sessions"
        /\ req' = IF fails THEN Finished("del", 500)
                  ELSE [req EXCEPT !["del"].session_ids = SessionsOf(req["del"].document_id),
                                   !["del"].pc =
                                       IF SessionsOf(req["del"].document_id) = {}
                                       THEN "delete_sessions" ELSE "delete_messages"]
        /\ UNCHANGED <<indexVars, storeVars, genVars, collVars, chunkVars, ops, last,
                       sessions, chat_messages, now>>

\* for session_id in session_ids: delete from chat_messages where session_id = ...
DelMessages ==
    \E fails \in BOOLEAN, s \in req["del"].session_ids :
        /\ req["del"].pc = "delete_messages"
        /\ IF fails
           THEN req' = Finished("del", 500) /\ UNCHANGED chat_messages
           ELSE /\ chat_messages' = SelectSeq(chat_messages, LAMBDA m : m.session_id # s)
                /\ req' = [req EXCEPT !["del"].session_ids = @ \ {s},
                                      !["del"].pc = IF req["del"].session_ids = {s}
                                                    THEN "delete_sessions" ELSE @]
        /\ UNCHANGED <<indexVars, storeVars, genVars, collVars, chunkVars, ops, last,
                       sessions, now>>

\* delete from sessions where document_id = document_id
DelSessions ==
    \E fails \in BOOLEAN :
        /\ req["del"].pc = "delete_sessions"
        /\ IF fails
           THEN req' = Finished("del", 500) /\ UNCHANGED <<sessions, chat_messages>>
           ELSE LET left == WithoutSessions(SessionsOf(req["del"].document_id))
                IN  /\ sessions' = left.sessions
                    /\ chat_messages' = left.chat_messages
                    /\ req' = [req EXCEPT !["del"].pc = "delete_embeddings"]
        /\ UNCHANGED <<indexVars, storeVars, genVars, collVars, chunkVars, ops, last, now>>

\* try: VectorService(); delete_document_chunks(document_id)  except: print
DelEmbeddings ==
    \E fault \in {"none", "vsInit", "delete"} :
        LET d == req["del"].document_id
            idx == IF fault = "vsInit" THEN index
                   ELSE DeleteDocumentChunks(index, d, fault = "delete")
        IN  /\ req["del"].pc = "delete_embeddings"
            /\ index' = idx
            /\ indexed' = IF Count(idx, d) = 0 THEN [indexed EXCEPT ![d] = NoChunks]
                          ELSE indexed
            /\ req' = [req EXCEPT !["del"].pc = "delete_file",
                                  !["del"].vectorFailed = (fault # "none")]
            /\ UNCHANGED <<seed, storeVars, genVars, collVars, chunkVars, ops, last,
                           sessions, chat_messages, now>>

\* try: storage.from_('documents').remove([file_path])  except: print
DelFile ==
    \E fails \in BOOLEAN :
        /\ req["del"].pc = "delete_file"
        /\ blobs' = IF fails THEN blobs
                    ELSE blobs \ { RouteBlobTarget(doc.file_url) : doc \in req["del"].document }
        /\ req' = [req EXCEPT !["del"].pc = "delete_record", !["del"].blobFailed = fails]
        /\ UNCHANGED <<indexVars, users, documents, used, genVars, collVars, chunkVars,
                       ops, last, sessions, chat_messages, now>>

\* delete from documents where id = document_id; the rows that refer to the
\* document go with it.
DelRecord ==
    \E fails \in BOOLEAN :
        /\ req["del"].pc = "delete_record"
        /\ IF fails
           THEN /\ req' = Finished("del", 500)
                /\ UNCHANGED <<documents, sessions, chat_messages>>
           ELSE LET left == WithoutSessions(SessionsOf(req["del"].document_id))
                IN  /\ documents' = { doc \in documents : doc.id # req["del"].document_id }
                    /\ sessions' = left.sessions
                    /\ chat_messages' = left.chat_messages
                    /\ req' = Finished("del", 200)
        /\ UNCHANGED <<indexVars, users, blobs, used, genVars, collVars, chunkVars,
                       ops, last, now>>

\* POST /sessions/document/<document_id>: the ownership query
NewSessionLookup ==
    \E fails \in BOOLEAN :
        /\ req["new"].pc = "idle"
        /\ req' = IF fails THEN Finished("new", 500)
                  ELSE IF ~OwnedByQuery("u1", "A") THEN Finished("new", 403)
                  ELSE [req EXCEPT !["new"].pc = "insert", !["new"].user_id = "u1",
                                   !["new"].document_id = "A"]
        /\ UNCHANGED <<indexVars, storeVars, genVars, collVars, chunkVars, ops, last,
                       sessions, chat_messages, now>>

\* insert into sessions
NewSessionInsert ==
    \E fails \in BOOLEAN :
        /\ req["new"].pc = "insert"
        /\ fails \/ DocumentKeyHolds(req["new"].document_id)
        /\ IF fails
           THEN req' = Finished("new", 500) /\ UNCHANGED sessions
           ELSE /\ sessions' = [sid \in DOMAIN sessions \cup {NewSessionId} |->
                                   IF sid = NewSessionId
                                   THEN [document_id |-> req["new"].document_id,
                                         title |-> NewChat]
                                   ELSE sessions[sid]]
                /\ req' = Finished("new", 201)
        /\ UNCHANGED <<indexVars, storeVars, genVars, collVars, chunkVars, ops, last,
                       chat_messages, now>>

NextDeleteRace ==
    \/ \E r \in {"r1"} :
          \/ Begin(r)
          \/ GetSession(r)
          \/ CheckOwner(r)
          \/ CountMessages(r)
          \/ SetTitle(r)
          \/ FetchHistory(r)
          \/ SaveUser(r)
          \/ Retrieve(r)
          \/ StreamStep(r)
          \/ PersistAssistant(r)
          \/ Disconnect(r)
          \/ Fallback(r)
    \/ DelLookup
    \/ DelSelectSessions
    \/ DelMessages
    \/ DelSessions
    \/ DelEmbeddings
    \/ DelFile
    \/ DelRecord
    \/ NewSessionLookup
    \/ NewSessionInsert

SpecDeleteRace == InitDeleteRace /\ [][NextDeleteRace]_vars

(***************************************************************************)
(* The steps of VectorService.__init__, one per call of the Qdrant client  *)
(***************************************************************************)
InitCollection ==
    /\ seed \in Seeds
    /\ index = <<>>
    /\ indexed = [d \in DocIds |-> NoChunks]
    /\ ops = 0
    /\ last = NoCall
    /\ users = {}
    /\ documents = {}
    /\ blobs = {}
    /\ used = {}
    /\ g = NoGen
    /\ req = [r \in Reqs |-> Idle]
    /\ sessions = <<>>
    /\ chat_messages = <<>>
    /\ now = 0
    /\ ck = NoChunking
    /\ coll \in { AbsentCollection }
            \cup { [ exists |-> TRUE, size |-> s, points |-> p, payload_index |-> TRUE ] :
                       s \in {EarlierVectorSize, EMBEDDING_VECTOR_SIZE}, p \in {{}, {1}} }
    /\ ini = [v \in Initialisers |-> NotConstructed]

\* A request constructs a VectorService.
Construct(v) ==
    /\ ini[v].pc \in {"new", "done"}
    /\ ops < MaxInits
    /\ ops' = ops + 1
    /\ ini' = [ini EXCEPT ![v] = [NotConstructed EXCEPT !.pc = "get_collections"]]
    /\ UNCHANGED <<indexVars, storeVars, genVars, chatVars, chunkVars, last, coll>>

\* collections = client.get_collections(); collection_exists = any(...)
ListCollections(v) ==
    /\ ini[v].pc = "get_collections"
    /\ ini' = [ini EXCEPT ![v].collection_exists = coll.exists,
                          ![v].sawConfigured = coll.exists /\ coll.size = EMBEDDING_VECTOR_SIZE,
                          ![v].pc = IF coll.exists THEN "get_collection" ELSE "create_collection"]
    /\ UNCHANGED <<indexVars, storeVars, genVars, chatVars, chunkVars, ops, last, coll>>

\* collection_info = client.get_collection(name); the comparison of the sizes
ReadCollection(v) ==
    /\ ini[v].pc = "get_collection"
    /\ ini' = IF ~coll.exists THEN Warned(v)
              ELSE [ini EXCEPT ![v].existing_vector_size = coll.size,
                               ![v].pc = IF SizeMismatch(coll.size) THEN "delete_collection"
                                         ELSE "index_existing"]
    /\ UNCHANGED <<indexVars, storeVars, genVars, chatVars, chunkVars, ops, last, coll>>

\* client.delete_collection(name). What the client does when the collection
\* is no longer there is the backend's choice: it raises or it reports False.
DropCollection(v) ==
    \E raises \in BOOLEAN :
        /\ ini[v].pc = "delete_collection"
        /\ raises => ~coll.exists
        /\ IF raises
           THEN ini' = Warned(v) /\ UNCHANGED coll
           ELSE coll' = DeleteCollection(coll) /\ ini' = At(v, "create_collection")
        /\ UNCHANGED <<indexVars, storeVars, genVars, chatVars, chunkVars, ops, last>>

\* client.create_collection(name, VectorParams(size=self.vector_size, ...))
CreateCollectionStep(v) ==
    /\ ini[v].pc = "create_collection"
    /\ LET o == CreateCollection(coll)
       IN  /\ coll' = o.collection
           /\ ini' = IF o.raised THEN Warned(v) ELSE At(v, "create_payload_index")
    /\ UNCHANGED <<indexVars, storeVars, genVars, chatVars, chunkVars, ops, last>>

\* client.create_payload_index(...) after create_collection
CreateIndexStep(v) ==
    /\ ini[v].pc = "create_payload_index"
    /\ LET o == CreatePayloadIndex(coll)
       IN  /\ coll' = o.collection
           /\ ini' = IF o.raised THEN Warned(v) ELSE At(v, "done")
    /\ UNCHANGED <<indexVars, storeVars, genVars, chatVars, chunkVars, ops, last>>

\* The matching branch: create_payload_index inside try/except: pass
IndexExisting(v) ==
    /\ ini[v].pc = "index_existing"
    /\ coll' = CreatePayloadIndex(coll).collection
    /\ ini' = At(v, "done")
    /\ UNCHANGED <<indexVars, storeVars, genVars, chatVars, chunkVars, ops, last>>

\* A request that holds a constructed service upserts a point; the backend
\* takes vectors of the collection's dimension only.
CollectionUpsert ==
    \E p \in CollectionPointIds :
        /\ coll.exists
        /\ coll.size = EMBEDDING_VECTOR_SIZE
        /\ p \notin coll.points
        /\ \E v \in Initialisers : ini[v].pc = "done"
        /\ coll' = [coll EXCEPT !.points = @ \cup {p}]
        /\ UNCHANGED <<indexVars, storeVars, genVars, chatVars, chunkVars, ops, last, ini>>

NextCollection ==
    \/ \E v \in Initialisers :
          \/ Construct(v)
          \/ ListCollections(v)
          \/ ReadCollection(v)
          \/ DropCollection(v)
          \/ CreateCollectionStep(v)
          \/ CreateIndexStep(v)
          \/ IndexExisting(v)
    \/ CollectionUpsert

SpecCollection == InitCollection /\ [][NextCollection]_vars

(***************************************************************************)
(* Claims about the vector index                                           *)
(***************************************************************************)
OtherDoc(d) == IF d = "A" THEN "B" ELSE "A"

\* C1: every point a search scoped to a document returns has that document's
\* id in its payload, and the passages handed back are exactly those points'
\* texts, whatever was added, deleted or restarted before, for every query
\* and every top_k.
C1_SearchIsolation ==
    last.op = "search" =>
        /\ Len(last.results) = Len(last.scored)
        /\ Len(last.scored) <= last.top_k
        /\ \A i \in 1 .. Len(last.scored) :
              /\ last.scored[i].payload.document_id = last.document_id
              /\ last.scored[i].id \in DOMAIN index
              /\ index[last.scored[i].id].payload = last.scored[i].payload
              /\ last.results[i].text = last.scored[i].payload.text

\* A search scoped to one document returned passages while the other
\* document had points in the collection.
C1_Witness ==
    /\ last.op = "search"
    /\ Len(last.results) >= 1
    /\ Count(index, OtherDoc(last.document_id)) >= 1

\* C2: adding again the chunk list a document was last indexed with leaves
\* the document's point count unchanged.
C2_ReindexKeepsCount ==
    (last.op = "add" /\ last.repeat /\ ~last.raised) => last.after = last.before

(***************************************************************************)
(* Claims about document upload                                            *)
(***************************************************************************)
\* C3: an upload whose embedding or index-upsert step failed ends in an
\* error and leaves no document record of that upload behind.
C3_NoZombieDocument ==
    (last.op \in {"upload_route", "upload_service"} /\ last.started /\ last.indexingFailed) =>
        /\ IF last.op = "upload_route" THEN last.status = 500 ELSE last.raised
        /\ \A doc \in documents : doc.id # last.document_id

(***************************************************************************)
(* Claims about the chat turn                                              *)
(***************************************************************************)
UserTurnPersisted(r) ==
    \E i \in DOMAIN chat_messages : chat_messages[i].id = <<req[r].turn, "user">>

AssistantTurns(r) ==
    { i \in DOMAIN chat_messages : chat_messages[i].id = <<req[r].turn, "assistant">> }

Payloads(r) == [i \in 1 .. Len(req[r].events) |-> Payload(req[r].events[i])]

\* The deltas of the chunk events, concatenated in the order they were sent.
RECURSIVE ConcatChunks(_)
ConcatChunks(payloads) ==
    IF payloads = <<>> THEN <<>>
    ELSE (IF payloads[1].type = "chunk" THEN payloads[1].chunk ELSE <<>>)
         \o ConcatChunks(Tail(payloads))

\* C4: a turn that has persisted its user turn keeps that user turn, and when
\* the turn has ended exactly one assistant turn is persisted for it.
C4_EndedTurnHasAssistantTurn ==
    \A r \in Reqs :
        /\ req[r].user_saved => UserTurnPersisted(r)
        /\ (req[r].user_saved /\ req[r].pc \in Ended) => Cardinality(AssistantTurns(r)) = 1

\* C5 as stated: the user turn is persisted only after the context has been
\* retrieved, and before the first delta is streamed.
C5_UserTurnAfterContext ==
    \A r \in Reqs :
        /\ UserTurnPersisted(r) => req[r].searched
        /\ req[r].events # <<>> => UserTurnPersisted(r)

\* C5: the context is retrieved only after the user turn has been persisted,
\* and the first delta is streamed only after both.
C5_UserTurnBeforeContext ==
    \A r \in Reqs :
        /\ req[r].searched => UserTurnPersisted(r)
        /\ req[r].pc \in {"stream", "persist", "closed", "aborted"} =>
              (req[r].searched /\ UserTurnPersisted(r))
        /\ req[r].events # <<>> => (req[r].searched /\ UserTurnPersisted(r))

C5_Witness ==
    \E r \in Reqs :
        /\ req[r].pc = "stream"
        /\ Len(req[r].events) >= 1
        /\ Payload(req[r].events[1]).type = "chunk"
        /\ req[r].context # <<>>

\* C6: the content of the assistant turn persisted at the end of a stream is
\* the concatenation, in order, of the deltas sent to the client as chunk events.
C6_PersistedIsConcatenation ==
    \A r \in Reqs :
        (req[r].pc = "closed" /\ req[r].assistant_saved) =>
            /\ AssistantTurns(r) # {}
            /\ \A i \in AssistantTurns(r) :
                  chat_messages[i].content = ConcatChunks(Payloads(r))

C6_Witness ==
    \E r \in Reqs :
        /\ req[r].pc = "closed" /\ req[r].assistant_saved
        /\ req[r].script.lines = <<Delta(Hel), Delta(Lo), DoneLine>>
        /\ Len(req[r].events) = 3
        /\ \E i \in AssistantTurns(r) : chat_messages[i].content = <<"H", "e", "l", "l", "o">>

\* C7: the events of a turn are chunk events followed, when the stream has
\* ended, by exactly one terminal event, done or error; nothing follows the
\* terminal event, and a done event names an assistant turn that is persisted.
C7_EventStreamShape ==
    \A r \in Reqs :
        LET ev == Payloads(r)
        IN  /\ \A i \in 1 .. Len(ev) - 1 : ev[i].type = "chunk"
            /\ req[r].pc = "closed" => (Len(ev) >= 1 /\ ev[Len(ev)].type \in {"done", "error"})
            /\ req[r].pc # "closed" => \A i \in 1 .. Len(ev) : ev[i].type = "chunk"
            /\ \A i \in 1 .. Len(ev) :
                  ev[i].type = "done" =>
                      \E j \in DOMAIN chat_messages :
                          /\ chat_messages[j].id = ev[i].message
                          /\ chat_messages[j].role = "assistant"
                          /\ chat_messages[j].session_id = req[r].session_id

C7_Witness ==
    \E r \in Reqs :
        /\ req[r].pc = "closed"
        /\ Len(req[r].events) >= 2
        /\ Payload(req[r].events[1]).type = "chunk"
        /\ Payload(req[r].events[Len(req[r].events)]).type = "done"

(***************************************************************************)
(* Claims about the RAG generator                                          *)
(***************************************************************************)
Min(a, b) == IF a < b THEN a ELSE b

\* Position of the first line of the given kinds, Len + 1 when there is none.
FirstOf(lines, kinds) ==
    LET at == { i \in 1 .. Len(lines) : lines[i].kind \in kinds }
    IN  IF at = {} THEN Len(lines) + 1 ELSE CHOOSE i \in at : \A j \in at : i <= j

FirstSentinel(script) == FirstOf(script.lines, {"done"})

FirstFailure(script) ==
    IF script.post # "ok" THEN 0 ELSE FirstOf(script.lines, {"break", "scalar"})

Failed(script) == FirstFailure(script) < FirstSentinel(script)

\* The contents of the delta lines in front of position n, in order.
DeltasBefore(lines, n) ==
    LET sel == SelectSeq(SubSeq(lines, 1, n - 1), LAMBDA l : l.kind = "delta")
    IN  [i \in 1 .. Len(sel) |-> sel[i].content]

IsPrefix(a, b) == Len(a) <= Len(b) /\ SubSeq(b, 1, Len(a)) = a

\* C8: the sequence generate_response_stream yields is finite; the generator
\* ends at the [DONE] sentinel or when the backend closes the connection, it
\* never reads past the sentinel, and what it yields on an undisturbed stream
\* is exactly the deltas in front of the sentinel.
C8_StreamEndsAtSentinel ==
    g.fn = "stream" =>
        /\ g.pos <= FirstSentinel(g.script)
        /\ Len(g.yielded) <= Len(g.script.lines) + 1
        /\ ~Failed(g.script) =>
              /\ IsPrefix(g.yielded, DeltasBefore(g.script.lines, FirstSentinel(g.script)))
              /\ g.phase = "ended" =>
                    g.yielded = DeltasBefore(g.script.lines, FirstSentinel(g.script))

C8_Witness ==
    /\ g.fn = "stream" /\ g.phase = "ended"
    /\ FirstSentinel(g.script) < Len(g.script.lines)
    /\ g.script.lines[Len(g.script.lines)].kind = "delta"
    /\ g.yielded = <<Hel>>

\* C9: no backend or transport failure leaves a generator as an exception:
\* generate_response returns the completion or an error string, and
\* generate_response_stream yields the deltas produced so far, then exactly
\* one apology, and ends.
C9_NoExceptionEscapes ==
    /\ g.fn \in {"stream", "generate"} => g.phase # "raised"
    /\ g.fn = "generate" =>
          g.returned = IF g.backend.post # "ok" THEN ConnectError
                       ELSE IF g.backend.body = "nokey" THEN Apology
                       ELSE g.backend.text
    /\ (g.fn = "stream" /\ Failed(g.script)) =>
          /\ IsPrefix(g.yielded,
                 DeltasBefore(g.script.lines, FirstFailure(g.script)) \o <<Apology>>)
          /\ g.phase = "ended" =>
                g.yielded = DeltasBefore(g.script.lines, FirstFailure(g.script)) \o <<Apology>>
    /\ (g.fn = "stream" /\ ~Failed(g.script)) =>
          \A i \in 1 .. Len(g.yielded) : g.yielded[i] # Apology

C9_Witness ==
    /\ g.fn = "stream" /\ g.phase = "ended"
    /\ Failed(g.script)
    /\ g.yielded = <<Hel, Apology>>

\* C10: the messages sent to the backend are one system message, then the
\* last min(6, len(history)) turns of the history in their order, then the
\* user query: 2 + min(6, len(history)) messages.
C10_MessageAssembly ==
    (g.fn = "generate" \/ (g.fn = "stream" /\ g.phase # "new")) =>
        LET n == Min(6, Len(g.history))
            m == g.messages
        IN  /\ Len(m) = 2 + n
            /\ m[1].role = "system"
            /\ m[Len(m)] = [role |-> "user", content |-> g.query]
            /\ \A i \in 1 .. n :
                  m[1 + i] = [ role |-> g.history[Len(g.history) - n + i].role,
                               content |-> g.history[Len(g.history) - n + i].content ]

C10_Witness ==
    /\ g.fn = "stream" /\ g.phase # "new"
    /\ Len(g.history) > 6
    /\ Len(g.messages) = 8

(***************************************************************************)
(* Claims about the empty context                                          *)
(***************************************************************************)
Occurrences(text, c) == Cardinality({ i \in DOMAIN text : text[i] = c })

\* C11: a search on a document without indexed points gives an empty
\* sequence and no error; with an empty context the system message has no
\* Document Content section, with a non-empty one the section is appended
\* once, followed by the context as it is.
C11_EmptyContextPolicy ==
    \A r \in Reqs :
        /\ (req[r].searched /\ Count(index, req[r].document_id) = 0) =>
              req[r].context = <<>>
        /\ req[r].messages # <<>> =>
              LET sys == req[r].messages[1].content
              IN  IF req[r].context = <<>>
                  THEN /\ sys = PromptStream
                       /\ Occurrences(sys, HeaderStream[1]) = 0
                  ELSE /\ sys = PromptStream \o HeaderStream \o req[r].context
                       /\ Occurrences(sys, HeaderStream[1]) = 1

C11_Witness ==
    \E r \in Reqs :
        /\ req[r].searched
        /\ Count(index, req[r].document_id) = 0
        /\ req[r].context = <<>>
        /\ req[r].messages # <<>>
        /\ req[r].messages[1].content = PromptStream

(***************************************************************************)
(* Claims about the chunker                                                *)
(***************************************************************************)
Ceil(a, b) == (a + b - 1) \div b

ChunksWellFormed ==
    ck.fn = "chunk_text" =>
        \A i \in 1 .. Len(ck.chunks) :
            /\ ck.chunks[i] # <<>>
            /\ \E j \in 1 .. Len(ck.chunks[i]) : ck.chunks[i][j] # SP
            /\ Len(ck.chunks[i]) <= ck.chunk_size

\* C12: for any text, any chunk_size > 0 and any chunk_overlap, chunk_text
\* comes to its end, and every chunk it has collected is non-empty, not
\* whitespace only and at most chunk_size characters long.
C12_ChunkTextTerminates ==
    /\ []ChunksWellFormed
    /\ (ck.fn = "chunk_text") ~> (ck.fn = "chunk_text" /\ ck.pc = "done")

C12_Witness ==
    /\ ck.fn = "chunk_text" /\ ck.pc = "done"
    /\ ck.chunk_overlap < 0
    /\ Len(ck.starts) >= 2
    /\ Len(ck.chunks) >= 1
    /\ Len(ck.chunks) < Len(ck.starts)

\* C13: with chunk_overlap >= chunk_size every window starts where the one
\* before it ended, and chunk_text returns at most ceil(len(text)/chunk_size)
\* chunks.
C13_OverlapDisabled ==
    (ck.fn = "chunk_text" /\ ck.chunk_overlap >= ck.chunk_size) =>
        /\ \A i \in 1 .. Len(ck.starts) : ck.starts[i] = (i - 1) * ck.chunk_size
        /\ Len(ck.chunks) <= Ceil(Len(ck.text), ck.chunk_size)

C13_Witness ==
    /\ ck.fn = "chunk_text" /\ ck.pc = "done"
    /\ ck.chunk_overlap > ck.chunk_size
    /\ Len(ck.chunks) >= 2
    /\ Len(ck.chunks) = Ceil(Len(ck.text), ck.chunk_size)

PageNumbers(pages) == { pages[i].page_number : i \in DOMAIN pages }

\* The chunks of the result that carry page number n, in their order.
ChunksOfPage(result, n) == SelectSeq(result, LAMBDA c : c.page_number = n)

\* C15: chunk_pages keeps each page's number and restarts the chunk index at
\* 0 on every page: the chunks of a page carry 0, 1, ..., n-1 in text order,
\* and for pages with distinct numbers no two chunks share
\* (page_number, chunk_index).
C15_ChunkIndexPerPage ==
    (ck.fn = "chunk_pages" /\ Cardinality(PageNumbers(ck.pages)) = Len(ck.pages)) =>
        /\ \A c \in DOMAIN ck.result : ck.result[c].page_number \in PageNumbers(ck.pages)
        /\ \A p \in DOMAIN ck.pages :
              LET of == ChunksOfPage(ck.result, ck.pages[p].page_number)
                  texts == ChunkText(ck.pages[p].text, ck.chunk_size, ck.chunk_overlap)
              IN  /\ Len(of) = Len(texts)
                  /\ \A i \in 1 .. Len(of) : of[i].chunk_id = i - 1 /\ of[i].text = texts[i]
        /\ \A a, b \in DOMAIN ck.result :
              (/\ ck.result[a].page_number = ck.result[b].page_number
               /\ ck.result[a].chunk_id = ck.result[b].chunk_id) => a = b

C15_Witness ==
    /\ ck.fn = "chunk_pages"
    /\ Len(ck.pages) = 2
    /\ Len(ck.pages[1].text) = 3000
    /\ ck.chunk_size = 1500 /\ ck.chunk_overlap = 300
    /\ Len(ChunksOfPage(ck.result, 1)) = 3
    /\ ck.result[3].text = Slice(ck.pages[1].text, 2400, 3000)
    /\ ck.result[4] = [page_number |-> 2, chunk_id |-> 0, text |-> <<"a", "b">>]

(***************************************************************************)
(* Claims about the chunks of an uploaded document                         *)
(***************************************************************************)
\* The windows of a text: they start at 0, size - overlap, 2 * (size - overlap),
\* ... below the length of the text and end size characters later or at its end.
PageWindows(text, size, overlap) ==
    [k \in 1 .. Ceil(Len(text), size - overlap) |->
        Slice(text, (k - 1) * (size - overlap), (k - 1) * (size - overlap) + size)]

PointsOfPage(d, n) ==
    { i \in DOMAIN index : /\ index[i].payload.document_id = d
                           /\ index[i].payload.page_number = n }

\* C14: after an upload with 0 <= overlap < size whose indexing went through,
\* the points of every page of the document are the windows of that page's
\* text, one point a window, numbered in text order.
C14_PagesIndexedAsWindows ==
    (/\ last.op = "upload_route"
     /\ last.started
     /\ last.status = 201
     /\ ~last.indexingFailed
     /\ 0 <= CHUNK_OVERLAP /\ CHUNK_OVERLAP < CHUNK_SIZE) =>
        \A p \in DOMAIN last.pages :
            LET w == PageWindows(last.pages[p].text, CHUNK_SIZE, CHUNK_OVERLAP)
                pts == PointsOfPage(last.document_id, last.pages[p].page_number)
            IN  /\ Cardinality(pts) = Len(w)
                /\ \A k \in 1 .. Len(w) :
                      \E i \in pts : /\ index[i].payload.text = w[k]
                                     /\ index[i].payload.chunk_number = k - 1

(***************************************************************************)
(* Claims about document deletion                                          *)
(***************************************************************************)
DeleteCalled == last.op \in {"delete_route", "delete_service"}

DeleteSucceeded ==
    /\ DeleteCalled
    /\ IF last.op = "delete_route" THEN last.status = 200 ELSE last.raised = "none"

DeleteReportsFailure ==
    IF last.op = "delete_route" THEN last.status # 200 ELSE last.raised # "none"

RelationalStateGone ==
    /\ \A doc \in documents : doc.id # last.document_id
    /\ SessionsOf(last.document_id) = {}
    /\ \A i \in DOMAIN chat_messages : chat_messages[i].session_id \notin last.session_ids

\* C16: after a delete_document that succeeded, no session and no message of
\* the document remains and the index holds no point of its document_id.
C16_DeleteLeavesNothing ==
    DeleteSucceeded =>
        /\ SessionsOf(last.document_id) = {}
        /\ \A i \in DOMAIN chat_messages : chat_messages[i].session_id \notin last.session_ids
        /\ Count(index, last.document_id) = 0

\* C17: when deleting the document's points from the index fails during a
\* document deletion, the caller of the deletion is told of the failure.
C17_VectorFailureSurfaced ==
    (DeleteCalled /\ last.vectorFailed) => DeleteReportsFailure

DocData(docs, ss, ms, d) ==
    [ record |-> { doc \in docs : doc.id = d },
      sessions |-> { <<sid, ss[sid].title>> : sid \in { x \in DOMAIN ss : ss[x].document_id = d } },
      messages |-> SelectSeq(ms, LAMBDA m : m.session_id \in DOMAIN ss
                                           /\ ss[m.session_id].document_id = d) ]

OwnerIs(d, u) == \E doc \in documents : doc.id = d /\ doc.user_id = u

\* The request's target as the stored state has it before the request.
DocStanding(u, d) ==
    IF ~\E doc \in documents : doc.id = d THEN "missing"
    ELSE IF OwnerIs(d, u) THEN "own" ELSE "foreign"

Standing(u, kind, id) ==
    IF kind = "document" THEN DocStanding(u, id)
    ELSE IF id \notin DOMAIN sessions THEN "missing"
    ELSE DocStanding(u, sessions[id].document_id)

TargetKind(l) == IF l.op = "delete_route" THEN "document" ELSE l.kind
TargetId(l) == IF l.op = "delete_route" THEN l.document_id ELSE l.target
ReadBy(l) == IF l.op = "delete_route" THEN {} ELSE l.read

\* C19: a request on a session or document route returns data only of
\* documents of the requesting user, and changes what is stored only of
\* documents of the requesting user.
C19_OnlyOwnDocuments ==
    [][ ops' # ops =>
          \A d \in DocTargets :
              (\/ d \in ReadBy(last')
               \/ DocData(documents, sessions, chat_messages, d)
                      # DocData(documents', sessions', chat_messages', d))
                  => OwnerIs(d, last'.user_id) ]_vars

\* C20: with the database answering and the body valid, a request whose
\* document or session is not stored is answered 404, and one whose document
\* or session belongs to another user is answered 403.
C20_MissingIs404ForeignIs403 ==
    [][ (ops' # ops /\ ~last'.dbFailed /\ last'.status # 422) =>
          LET standing == Standing(last'.user_id, TargetKind(last'), TargetId(last'))
          IN  /\ standing = "missing" => last'.status = 404
              /\ standing = "foreign" => last'.status = 403 ]_vars

(***************************************************************************)
(* Claims about requests that fail validation                              *)
(***************************************************************************)
UploadCalled == last.op \in {"upload_route", "upload_service"}

\* C21: an upload whose file name does not end in an allowed extension
\* stores no blob, no vector point and no document record.
C21_RejectedUploadStoresNothing ==
    [][ (ops' # ops /\ last'.op \in {"upload_route", "upload_service"}
            /\ ~allowed_file(last'.filename)) =>
          /\ blobs' = blobs
          /\ index' = index
          /\ documents' = documents ]_vars

\* The chat half of C21: a send_message request answered 422 has left the
\* sessions and the messages as they were.
ChatValidationKeepsState ==
    [][ \A r \in Reqs :
          (req[r].pc \in {"idle"} \cup Ended /\ req'[r].status = 422) =>
              sessions' = sessions /\ chat_messages' = chat_messages ]_vars

(***************************************************************************)
(* Claims about the session title                                          *)
(***************************************************************************)
\* The title the first message of a session is to give.
DerivedTitle(m) ==
    IF Len(m) <= TITLE_MAX THEN m ELSE SubSeq(m, 1, TITLE_MAX) \o <<"...">>

\* The request has ended with its answer persisted, and its session holds
\* nothing but the turns of this request.
FirstExchangeDone(r) ==
    /\ req[r].pc \in Ended
    /\ req[r].assistant_saved
    /\ \A i \in DOMAIN chat_messages :
          chat_messages[i].session_id = req[r].session_id
              => chat_messages[i].id[1] = req[r].turn

C23_TitleDerivedOnce ==
    [][ \A s \in DOMAIN sessions :
          sessions[s].title # NewChat => sessions'[s].title = sessions[s].title ]_vars

\* Both request threads have answered a request, each sent to session "s1".
BothSendsEnded ==
    \A r \in Racers : req[r].pc \in Ended /\ req[r].session_id = "s1"

UserTurnOf(r) ==
    { i \in DOMAIN chat_messages : chat_messages[i].id = <<req[r].turn, "user">> }

C25_TurnsInSubmissionOrder ==
    \A i, j \in DOMAIN chat_messages :
        LET a == chat_messages[i]
            b == chat_messages[j]
        IN  (i # j /\ a.session_id = b.session_id) =>
                /\ a.created_at # b.created_at
                /\ (a.role = "user" /\ b.role = "user" /\ a.id[1] < b.id[1])
                       => a.created_at < b.created_at
                /\ (a.role = "user" /\ b.role = "assistant" /\ a.id[1] = b.id[1])
                       => a.created_at < b.created_at

(***************************************************************************)
(* Claims about failures and collisions in the index                       *)
(***************************************************************************)
EmbeddingFailed(l) == l.op = "add" /\ l.embedFailAt \in 1 .. Len(l.chunks)

\* C26: when the embedding of a chunk fails during add_document_chunks, the
\* call raises and the index is as it was before the call: no point of the
\* batch is stored.
C26_EmbeddingFailureStoresNothing ==
    [][ (ops' # ops /\ EmbeddingFailed(last')) => (last'.raised /\ index' = index) ]_vars

\* The second chunk of two failed, after the first was embedded, on an
\* index that holds points already.
C26_Witness ==
    /\ EmbeddingFailed(last)
    /\ last.embedFailAt = 2
    /\ last.raised
    /\ index # <<>>
    /\ \A i \in DOMAIN index : index[i].payload.document_id # last.document_id

InitialisersAtRest == \A v \in Initialisers : ini[v].pc \in {"new", "done"}

CollectionConfigured == coll.exists /\ coll.size = EMBEDDING_VECTOR_SIZE

C28_OtherDocumentsUntouched ==
    [][ (ops' # ops /\ last'.op = "add")
          => \A i \in DOMAIN index :
                index[i].payload.document_id # last'.document_id
                   => (i \in DOMAIN index' /\ index'[i] = index[i]) ]_vars

UploadFailed(l) ==
    \/ l.op = "upload_route" /\ l.status = 500
    \/ l.op = "upload_service" /\ l.raised

\* C29: an upload that ends in failure, at whichever step, leaves nothing
\* behind: no blob, no point in the index and no document record.
C29_FailedUploadStoresNothing ==
    [][ (ops' # ops /\ UploadFailed(last'))
          => (blobs' = blobs /\ index' = index /\ documents' = documents) ]_vars

(***************************************************************************)
(* Claims about deletion beside other requests                             *)
(***************************************************************************)
\* The deletion has answered, so has every other request that was made, and
\* at least one other request was made.
RaceFinished ==
    /\ req["del"].pc = "responded"
    /\ req["r1"].pc \in {"idle"} \cup Ended
    /\ req["new"].pc \in {"idle", "responded"}
    /\ req["r1"].pc \in Ended \/ req["new"].pc = "responded"

Deleted(d) == req["del"].status = 200 /\ req["del"].document_id = d

RowsReferTo(d) ==
    \/ \E sid \in DOMAIN sessions : sessions[sid].document_id = d
    \/ \E i \in DOMAIN chat_messages :
          chat_messages[i].session_id \in {"s1"} \cup FreshSessionIds

PointsReferTo(d) == Count(index, d) > 0

\* C30: when the deletion of a document ran beside a send_message request
\* or a create_session request on it and all of them have finished, no
\* session, no message and no point of the index refers to the deleted
\* document.
C30_NothingRefersToDeleted ==
    (RaceFinished /\ Deleted("A")) => (~RowsReferTo("A") /\ ~PointsReferTo("A"))

\* With the foreign keys of the models in the database, no row survives the
\* deletion in any interleaving.
DeleteRaceLeavesNoRows == (RaceFinished /\ Deleted("A")) => ~RowsReferTo("A")

\* Points survive only a deletion from the index that failed.
DeleteRacePointsOnlyAfterFailure ==
    (RaceFinished /\ Deleted("A") /\ PointsReferTo("A")) => req["del"].vectorFailed

\* The send_message request stored its user turn while the deletion was
\* under way, and the stream was still open when the record went.
DeleteRaceOverlapped ==
    /\ req["del"].pc = "responded" /\ Deleted("A")
    /\ req["r1"].user_saved
    /\ req["r1"].pc \in {"closed", "aborted", "responded"}
    /\ req["new"].status \in {201, 500}

====
